---- MODULE Spec2Model ----
(***************************************************************************)
(* A model of the source structural indexer, analyze_repo.py: the walk     *)
(* over SRC_DIR, the per-file extraction (parse_file_data), the            *)
(* normalisation of the captured text and the write of repo_structure.json.*)
(* Spec is a run of its main.  SpecNorm and SpecText run one category of   *)
(* parse_file_data and get_node_text on their own, SpecDoc the prompt      *)
(* truncation of generate_high_level_doc.py, and SpecGemini the retry loop *)
(* of get_gemini_completion in generate_final_docs_gemini.py.  SpecInter   *)
(* is a run of the main of generate_interdocs.py, SpecAnnotate of the main *)
(* of annotate_files.py and SpecFinal of the main of                       *)
(* generate_final_docs_gemini.py.                                          *)
(*                                                                         *)
(* Text is modelled as Python has it: bytes are sequences of byte values   *)
(* 0..255, str values are sequences of code points.  An optional string    *)
(* (None or a str) is <<>> for None and <<s>> for the string s.            *)
(***************************************************************************)
EXTENDS Integers, Sequences, FiniteSets, TLC

\* ------------------------------------------------------------------ bounds

\* The largest number of files the source tree of a snapshot holds.
MaxFiles == 3

\* The largest number of nodes a query captures in the file whose captures
\* are left open.
MaxCaptures == 2

\* The largest number of nodes a captures dict holds when one category is run
\* on its own.
MaxNodes == 3

\* The largest number of bytes of a content get_node_text is run on.
MaxBytes == 3

\* How far the lengths of the prompt sections are taken from the lengths at
\* which a section just fits in what is left of the limit.
MaxSlack == 31

\* The largest number of parts of a response of the model.
MaxParts == 2

\* The largest number of lines of a table of contents.
MaxLines == 2

\* ----------------------------------------------------------- configuration

\* SRC_DIR = "./src"
SRC_DIR == <<46, 47, 115, 114, 99>>

\* VALID_CPP_EXTENSIONS = {".h", ".cpp", ".i"}
VALID_CPP_EXTENSIONS == {<<46, 104>>, <<46, 99, 112, 112>>, <<46, 105>>}

\* VALID_PYTHON_EXTENSIONS = {".py"}
VALID_PYTHON_EXTENSIONS == {<<46, 112, 121>>}

\* python_parser = None: the Python parser is not loaded as shipped.
python_parser == FALSE

\* The query definitions main builds for each language, in dict order.
cpp_query_definitions ==
    << [data_key |-> "includes",  query_string |-> "CPP_INCLUDE_QUERY_STR",
        capture_names |-> <<"include_path">>],
       [data_key |-> "functions", query_string |-> "CPP_FUNCTION_QUERY_STR",
        capture_names |-> <<"function_name">>],
       [data_key |-> "classes",   query_string |-> "CPP_CLASS_QUERY_STR",
        capture_names |-> <<"class_name">>] >>

python_query_definitions ==
    << [data_key |-> "imports",   query_string |-> "PYTHON_IMPORT_QUERY_STR",
        capture_names |-> <<"module_part", "name_part">>],
       [data_key |-> "functions", query_string |-> "PYTHON_FUNCTION_QUERY_STR",
        capture_names |-> <<"function_name">>],
       [data_key |-> "classes",   query_string |-> "PYTHON_CLASS_QUERY_STR",
        capture_names |-> <<"class_name">>] >>

\* ------------------------------------------------------- library functions

\* None, and a str wrapped as an optional value.
None == <<>>

\* bytes.strip(): leading and trailing ASCII whitespace removed.
RECURSIVE BytesLStrip(_)
BytesLStrip(b) ==
    IF b # <<>> /\ Head(b) \in {9, 10, 11, 12, 13, 32}
    THEN BytesLStrip(Tail(b)) ELSE b

RECURSIVE BytesRStrip(_)
BytesRStrip(b) ==
    IF b # <<>> /\ b[Len(b)] \in {9, 10, 11, 12, 13, 32}
    THEN BytesRStrip(SubSeq(b, 1, Len(b) - 1)) ELSE b

BytesStrip(b) == BytesRStrip(BytesLStrip(b))

\* str.strip(chars): leading and trailing characters of chars removed.
RECURSIVE StrLStrip(_, _)
StrLStrip(s, chars) ==
    IF s # <<>> /\ Head(s) \in chars THEN StrLStrip(Tail(s), chars) ELSE s

RECURSIVE StrRStrip(_, _)
StrRStrip(s, chars) ==
    IF s # <<>> /\ s[Len(s)] \in chars
    THEN StrRStrip(SubSeq(s, 1, Len(s) - 1), chars) ELSE s

StrStrip(s, chars) == StrRStrip(StrLStrip(s, chars), chars)

\* os.path.join(root, filename), for a root that does not end in "/".
PathJoin(root, filename) == root \o <<47>> \o filename

\* The position of the last "/" of a path, 0 if there is none.
LastSlash(path) ==
    LET slashes == {i \in 1..Len(path) : path[i] = 47}
    IN  IF slashes = {} THEN 0
        ELSE CHOOSE i \in slashes : \A j \in slashes : j <= i

\* os.path.basename(path): what follows the last "/".
Basename(path) == SubSeq(path, LastSlash(path) + 1, Len(path))

\* os.path.dirname(path): what precedes the last "/" (a path of the model
\* has no "/" at its end, and none twice in a row).
Dirname(path) == SubSeq(path, 1, LastSlash(path) - 1)

\* os.path.splitext(filename)[1]: from the last dot on, unless only dots
\* precede it (a leading dot does not start an extension).
Splitext(filename) ==
    LET dots == {i \in 1..Len(filename) : filename[i] = 46}
        last == IF dots = {} THEN 0
                ELSE CHOOSE i \in dots : \A j \in dots : j <= i
    IN  IF last > 0 /\ \E i \in 1..(last - 1) : filename[i] # 46
        THEN SubSeq(filename, last, Len(filename))
        ELSE <<>>

\* Whether b is a UTF-8 continuation byte.
IsCont(b) == b >= 128 /\ b <= 191

\* The length of the well-formed UTF-8 sequence b starts with, 0 if none.
Utf8Len(b) ==
    LET n == Len(b) IN
    IF n = 0 THEN 0
    ELSE IF b[1] < 128 THEN 1
    ELSE IF b[1] >= 194 /\ b[1] <= 223 /\ n >= 2 /\ IsCont(b[2]) THEN 2
    ELSE IF b[1] >= 224 /\ b[1] <= 239 /\ n >= 3 /\ IsCont(b[2]) /\ IsCont(b[3])
            /\ (b[1] = 224 => b[2] >= 160) /\ (b[1] = 237 => b[2] <= 159) THEN 3
    ELSE IF b[1] >= 240 /\ b[1] <= 244 /\ n >= 4
            /\ IsCont(b[2]) /\ IsCont(b[3]) /\ IsCont(b[4])
            /\ (b[1] = 240 => b[2] >= 144) /\ (b[1] = 244 => b[2] <= 143) THEN 4
    ELSE 0

\* The code point of the well-formed sequence of length k that b starts with.
Utf8CodePoint(b, k) ==
    IF k = 1 THEN b[1]
    ELSE IF k = 2 THEN (b[1] - 192) * 64 + (b[2] - 128)
    ELSE IF k = 3 THEN (b[1] - 224) * 4096 + (b[2] - 128) * 64 + (b[3] - 128)
    ELSE (b[1] - 240) * 262144 + (b[2] - 128) * 4096
         + (b[3] - 128) * 64 + (b[4] - 128)

\* bytes.decode('utf-8', errors='ignore'): every byte that is not part of a
\* well-formed sequence is dropped.
RECURSIVE DecodeIgnore(_)
DecodeIgnore(b) ==
    IF b = <<>> THEN <<>>
    ELSE LET k == Utf8Len(b) IN
         IF k = 0 THEN DecodeIgnore(Tail(b))
         ELSE <<Utf8CodePoint(b, k)>> \o DecodeIgnore(SubSeq(b, k + 1, Len(b)))

\* s < t in Python's order of str: by code point, a proper prefix first.
RECURSIVE StrLess(_, _)
StrLess(s, t) ==
    IF t = <<>> THEN FALSE
    ELSE IF s = <<>> THEN TRUE
    ELSE IF Head(s) # Head(t) THEN Head(s) < Head(t)
    ELSE StrLess(Tail(s), Tail(t))

\* A variant of ListOfSet that drops an element only when it repeats the
\* element before it.
RECURSIVE ListOfSetAdjacent(_)
ListOfSetAdjacent(xs) ==
    IF Len(xs) <= 1 THEN xs
    ELSE LET rest == ListOfSetAdjacent(SubSeq(xs, 1, Len(xs) - 1))
         IN  IF xs[Len(xs)] = xs[Len(xs) - 1] THEN rest
             ELSE Append(rest, xs[Len(xs)])

\* list(set(xs)): one copy of every element of xs.
RECURSIVE ListOfSet(_)
ListOfSet(xs) ==
    IF xs = <<>> THEN <<>>
    ELSE LET rest == ListOfSet(SubSeq(xs, 1, Len(xs) - 1))
             x == xs[Len(xs)]
         IN  IF \E i \in 1..Len(rest) : rest[i] = x THEN rest ELSE Append(rest, x)

\* x inserted into the ascending list xs, after the elements not above it.
RECURSIVE Insert(_, _)
Insert(x, xs) ==
    IF xs = <<>> THEN <<x>>
    ELSE IF StrLess(x, Head(xs)) THEN <<x>> \o xs
    ELSE <<Head(xs)>> \o Insert(x, Tail(xs))

\* sorted(xs), for a list of str.
RECURSIVE Sorted(_)
Sorted(xs) ==
    IF xs = <<>> THEN <<>>
    ELSE Insert(xs[Len(xs)], Sorted(SubSeq(xs, 1, Len(xs) - 1)))

\* ------------------------------------------------------------ file snapshots

\* A node of the syntax tree: its byte span in the file's content.
Node(s, e) == [start_byte |-> s, end_byte |-> e]

\* What executing one category's query on a file does: captures_dict is
\* query.captures(tree.root_node), from capture name to the nodes captured;
\* raise_after is -1 when nothing raises, and otherwise the number of nodes
\* already added to the category's list when an exception is raised inside
\* the try block (0: lang_obj.query or query.captures itself raised).
Query(raise_after, captures_dict) ==
    [raise_after |-> raise_after, captures_dict |-> captures_dict]

\* A query that matches nothing: captures_dict has no key.
NoMatch == Query(-1, <<>>)

\* The files a snapshot of the source tree is drawn from.  Each has the
\* directory os.walk reports it in, its name, its bytes, what open/read
\* raises (None or the str of the exception), what parser.parse raises,
\* whether its syntax is broken, and what the three queries do on its tree.
Catalogue ==
    { \* ./src/a.h: #include <z> / #include "b" / #include <b> /
      \*            struct B;class A;struct B;
      [root |-> SRC_DIR, filename |-> <<97, 46, 104>>,
       content |-> <<35, 105, 110, 99, 108, 117, 100, 101, 32, 60, 122, 62, 10,
                     35, 105, 110, 99, 108, 117, 100, 101, 32, 34, 98, 34, 10,
                     35, 105, 110, 99, 108, 117, 100, 101, 32, 60, 98, 62, 10,
                     115, 116, 114, 117, 99, 116, 32, 66, 59,
                     99, 108, 97, 115, 115, 32, 65, 59,
                     115, 116, 114, 117, 99, 116, 32, 66, 59>>,
       read_error |-> None, parse_error |-> None, malformed |-> FALSE,
       queries |-> [includes |-> Query(-1, [include_path |->
                        <<Node(9, 12), Node(22, 25), Node(35, 38)>>]),
                    functions |-> NoMatch,
                    classes |-> Query(-1, [class_name |->
                        <<Node(46, 47), Node(54, 55), Node(63, 64)>>])]],
      \* ./src/a.cpp: #include "a.h" / int doWork(){}
      [root |-> SRC_DIR, filename |-> <<97, 46, 99, 112, 112>>,
       content |-> <<35, 105, 110, 99, 108, 117, 100, 101, 32, 34, 97, 46, 104,
                     34, 10, 105, 110, 116, 32, 100, 111, 87, 111, 114, 107,
                     40, 41, 123, 125>>,
       read_error |-> None, parse_error |-> None, malformed |-> FALSE,
       queries |-> [includes |-> Query(-1, [include_path |-> <<Node(9, 14)>>]),
                    functions |-> Query(-1, [function_name |-> <<Node(19, 25)>>]),
                    classes |-> NoMatch]],
      \* ./src/e.cpp: zero bytes
      [root |-> SRC_DIR, filename |-> <<101, 46, 99, 112, 112>>,
       content |-> <<>>,
       read_error |-> None, parse_error |-> None, malformed |-> FALSE,
       queries |-> [includes |-> NoMatch, functions |-> NoMatch,
                    classes |-> NoMatch]],
      \* ./src/README.md: # x
      [root |-> SRC_DIR, filename |-> <<82, 69, 65, 68, 77, 69, 46, 109, 100>>,
       content |-> <<35, 32, 120>>,
       read_error |-> None, parse_error |-> None, malformed |-> FALSE,
       queries |-> [includes |-> NoMatch, functions |-> NoMatch,
                    classes |-> NoMatch]],
      \* ./src/m.py: import os   The Python imports query captures os; the
      \* C++ includes query would capture nothing.
      [root |-> SRC_DIR, filename |-> <<109, 46, 112, 121>>,
       content |-> <<105, 109, 112, 111, 114, 116, 32, 111, 115>>,
       read_error |-> None, parse_error |-> None, malformed |-> FALSE,
       queries |-> [imports |-> Query(-1, [module_part |-> <<Node(7, 9)>>]),
                    includes |-> NoMatch,
                    functions |-> NoMatch, classes |-> NoMatch]],
      \* ./src/q.cpp: int g(){}int f(){}struct S;  The functions query raises
      \* after g has been added.
      [root |-> SRC_DIR, filename |-> <<113, 46, 99, 112, 112>>,
       content |-> <<105, 110, 116, 32, 103, 40, 41, 123, 125, 105, 110, 116,
                     32, 102, 40, 41, 123, 125, 115, 116, 114, 117, 99, 116,
                     32, 83, 59>>,
       read_error |-> None, parse_error |-> None, malformed |-> FALSE,
       queries |-> [includes |-> NoMatch,
                    functions |-> Query(1, [function_name |->
                        <<Node(4, 5), Node(13, 14)>>]),
                    classes |-> Query(-1, [class_name |-> <<Node(25, 26)>>])]],
      \* ./src/sub/w.i: space, newline, tab
      [root |-> SRC_DIR \o <<47, 115, 117, 98>>, filename |-> <<119, 46, 105>>,
       content |-> <<32, 10, 9>>,
       read_error |-> None, parse_error |-> None, malformed |-> FALSE,
       queries |-> [includes |-> NoMatch, functions |-> NoMatch,
                    classes |-> NoMatch]],
      \* ./src/sub/p.cpp: int p;  open raises PermissionError.
      [root |-> SRC_DIR \o <<47, 115, 117, 98>>,
       filename |-> <<112, 46, 99, 112, 112>>,
       content |-> <<105, 110, 116, 32, 112, 59>>,
       read_error |-> <<"[Errno 13] Permission denied: './src/sub/p.cpp'">>,
       parse_error |-> None, malformed |-> FALSE,
       queries |-> [includes |-> NoMatch, functions |-> NoMatch,
                    classes |-> NoMatch]],
      \* ./src/sub/t.cpp: #include "t.h" / int f( {   truncated mid-token; the
      \* parser returns a best-effort tree, in which the include is found.
      [root |-> SRC_DIR \o <<47, 115, 117, 98>>,
       filename |-> <<116, 46, 99, 112, 112>>,
       content |-> <<35, 105, 110, 99, 108, 117, 100, 101, 32, 34, 116, 46, 104,
                     34, 10, 105, 110, 116, 32, 102, 40, 32, 123>>,
       read_error |-> None, parse_error |-> None, malformed |-> TRUE,
       queries |-> [includes |-> Query(-1, [include_path |-> <<Node(9, 14)>>]),
                    functions |-> NoMatch, classes |-> NoMatch]],
      \* ./src/.h: class H;  a hidden file: its name has no extension.
      [root |-> SRC_DIR, filename |-> <<46, 104>>,
       content |-> <<99, 108, 97, 115, 115, 32, 72, 59>>,
       read_error |-> None, parse_error |-> None, malformed |-> FALSE,
       queries |-> [includes |-> NoMatch, functions |-> NoMatch,
                    classes |-> Query(-1, [class_name |-> <<Node(6, 7)>>])]],
      \* ./src/sub/x.h: class X {   cut short, and parser.parse raises
      \* ValueError on it.
      [root |-> SRC_DIR \o <<47, 115, 117, 98>>, filename |-> <<120, 46, 104>>,
       content |-> <<99, 108, 97, 115, 115, 32, 88, 32, 123>>,
       read_error |-> None, parse_error |-> <<"Parsing failed">>,
       malformed |-> TRUE,
       queries |-> [includes |-> NoMatch, functions |-> NoMatch,
                    classes |-> Query(-1, [class_name |-> <<Node(6, 7)>>])]] }

\* file_path = os.path.join(root, filename)
FilePath(f) == PathJoin(f.root, f.filename)

\* The spans the queries may capture in ./src/v.cpp, whose content is
\* <b>"b"a : the texts <b>, "b", a and b.
Spans == {Node(0, 3), Node(3, 6), Node(6, 7), Node(1, 2)}

\* The lists of at most MaxCaptures captured nodes.
CaptureLists == UNION {[1..n -> Spans] : n \in 0..MaxCaptures}

\* ./src/v.cpp, on which the includes and the functions queries both capture
\* the nodes of the list nodes, in that order.
FreeFile(nodes) ==
    [root |-> SRC_DIR, filename |-> <<118, 46, 99, 112, 112>>,
     content |-> <<60, 98, 62, 34, 98, 34, 97>>,
     read_error |-> None, parse_error |-> None, malformed |-> FALSE,
     queries |-> [includes |-> Query(-1, [include_path |-> nodes]),
                  functions |-> Query(-1, [function_name |-> nodes]),
                  classes |-> NoMatch]]

\* File f in a configuration in which the query string of category k does
\* not compile: lang_obj.query raises on it, for every file alike.
WithBrokenQuery(f, k) ==
    [f EXCEPT !.queries = [j \in DOMAIN f.queries |->
                              IF j = k THEN Query(0, <<>>) ELSE f.queries[j]]]

\* ./src/a.h and ./src/a.cpp when the functions query does not compile.
BrokenTrees ==
    {{WithBrokenQuery(f, "functions") : f \in t} :
        t \in SUBSET {f \in Catalogue :
                         f.filename \in {<<97, 46, 104>>, <<97, 46, 99, 112, 112>>}}}

\* The snapshots: at most MaxFiles files of the catalogue, or ./src/v.cpp
\* alone with any list of captures, or files on which a query string does
\* not compile.
Snapshots ==
    {t \in SUBSET Catalogue : Cardinality(t) <= MaxFiles}
    \cup {{FreeFile(nodes)} : nodes \in CaptureLists}
    \cup BrokenTrees

\* --------------------------------------------------------- parse_file_data

\* bytes.decode('utf-8', errors='replace') on the bytes of TextBytes: U+FFFD
\* for every byte that is not part of a well-formed sequence.
RECURSIVE DecodeReplace(_)
DecodeReplace(b) ==
    IF b = <<>> THEN <<>>
    ELSE LET k == Utf8Len(b) IN
         IF k = 0 THEN <<65533>> \o DecodeReplace(Tail(b))
         ELSE <<Utf8CodePoint(b, k)>> \o DecodeReplace(SubSeq(b, k + 1, Len(b)))

\* A variant of get_node_text that decodes with errors='replace'.
GetNodeTextReplace(node, content_bytes) ==
    DecodeReplace(SubSeq(content_bytes, node.start_byte + 1, node.end_byte))

\* get_node_text(node, content_bytes)
get_node_text(node, content_bytes) ==
    DecodeIgnore(SubSeq(content_bytes, node.start_byte + 1, node.end_byte))

\* The nodes the loops over capture_names and captures_dict[name] visit, in
\* the order they visit them; a capture name that is no key is passed over.
RECURSIVE CapturedNodes(_, _)
CapturedNodes(capture_names, captures_dict) ==
    IF capture_names = <<>> THEN <<>>
    ELSE (IF Head(capture_names) \in DOMAIN captures_dict
          THEN captures_dict[Head(capture_names)] ELSE <<>>)
         \o CapturedNodes(Tail(capture_names), captures_dict)

\* A variant of TextToAdd that strips the text in every category.
TextToAddStripsEveryCategory(data_key, node, content_bytes) ==
    StrStrip(get_node_text(node, content_bytes), {34, 60, 62})

\* text_to_add for one node: its text, stripped of quotes and angle brackets
\* at both ends for the includes and imports categories.
TextToAdd(data_key, node, content_bytes) ==
    IF data_key = "includes" \/ data_key = "imports"
    THEN StrStrip(get_node_text(node, content_bytes), {34, 60, 62})
    ELSE get_node_text(node, content_bytes)

\* A variant of CollectCategory whose except clause empties the list.
CollectCategoryClearsOnError(info, q, content_bytes) ==
    IF info.query_string = "" \/ info.capture_names = <<>> THEN <<>>
    ELSE IF q.raise_after >= 0 THEN <<>>
    ELSE LET nodes == CapturedNodes(info.capture_names, q.captures_dict)
         IN  [i \in 1..Len(nodes) |->
                 TextToAdd(info.data_key, nodes[i], content_bytes)]

\* file_data[data_key] when the loop over one category ends: the text of the
\* nodes visited before the try block was left, by its end or by an
\* exception, which the except clause prints and drops.
CollectCategory(info, q, content_bytes) ==
    IF info.query_string = "" \/ info.capture_names = <<>> THEN <<>>
    ELSE LET nodes == CapturedNodes(info.capture_names, q.captures_dict)
             n == IF q.raise_after < 0 \/ q.raise_after > Len(nodes)
                  THEN Len(nodes) ELSE q.raise_after
         IN  [i \in 1..n |-> TextToAdd(info.data_key, nodes[i], content_bytes)]

\* A variant of Normalize that sorts without removing duplicates.
NormalizeKeepsDuplicates(xs) == Sorted(xs)

\* A variant of Normalize that removes the duplicates and does not sort.
NormalizeUnsorted(xs) == ListOfSet(xs)

\* sorted(list(set(file_data[key])))
Normalize(xs) == Sorted(ListOfSet(xs))

\* The data keys of a sequence of query definitions.
DataKeys(query_definitions) ==
    {query_definitions[i].data_key : i \in 1..Len(query_definitions)}

\* The definition of data key k.
InfoOf(query_definitions, k) ==
    LET i == CHOOSE j \in 1..Len(query_definitions) :
                 query_definitions[j].data_key = k
    IN  query_definitions[i]

\* A variant of parse_file_data that raises when no query captured anything.
ParseFileDataEmptyIsError(f, query_definitions) ==
    LET file_data ==
            [k \in DataKeys(query_definitions) |->
                Normalize(CollectCategory(InfoOf(query_definitions, k),
                                          f.queries[k], f.content))]
    IN  [raised |-> IF f.parse_error = None
                       /\ \A k \in DataKeys(query_definitions) : file_data[k] = <<>>
                    THEN <<"nothing captured">> ELSE f.parse_error,
         file_data |-> file_data]

\* A variant of parse_file_data that records a query's exception under
\* 'error' in the dict it returns, beside the lists it has collected.
ParseFileDataErrorKey(f, query_definitions) ==
    LET file_data ==
            [k \in DataKeys(query_definitions) |->
                Normalize(CollectCategory(InfoOf(query_definitions, k),
                                          f.queries[k], f.content))]
    IN  [raised |-> f.parse_error,
         file_data |->
            IF \E k \in DataKeys(query_definitions) : f.queries[k].raise_after >= 0
            THEN [k \in DataKeys(query_definitions) \cup {"error"} |->
                     IF k = "error" THEN <<"query failed">> ELSE file_data[k]]
            ELSE file_data]

\* A variant of parse_file_data with lang_obj.query outside the try block:
\* a query string that does not compile raises out of the function.
ParseFileDataCompileFatal(f, query_definitions) ==
    [raised |-> IF f.parse_error # None THEN f.parse_error
                ELSE IF \E k \in DataKeys(query_definitions) :
                            f.queries[k] = Query(0, <<>>)
                THEN <<"Invalid query">> ELSE None,
     file_data |->
        [k \in DataKeys(query_definitions) |->
            Normalize(CollectCategory(InfoOf(query_definitions, k),
                                      f.queries[k], f.content))]]

\* parse_file_data(parser, content_bytes, query_definitions, lang_obj) on
\* file f: raised is what parser.parse raised (None: nothing), file_data the
\* dict returned otherwise.
parse_file_data(f, query_definitions) ==
    [raised |-> f.parse_error,
     file_data |->
        [k \in DataKeys(query_definitions) |->
            Normalize(CollectCategory(InfoOf(query_definitions, k),
                                      f.queries[k], f.content))]]

\* The number of calls of lang_obj.query one call of parse_file_data makes
\* once the tree is there: one for every data key that line 50 lets through.
QueryCalls(query_definitions) ==
    Cardinality({i \in 1..Len(query_definitions) :
                    /\ query_definitions[i].query_string # ""
                    /\ query_definitions[i].capture_names # <<>>})

\* ------------------------------------------------------------------- main

\* A variant of LanguageFor without the else branch: a file of any other
\* extension is analysed as C++.
LanguageForNoSkip(extension) ==
    IF extension \in VALID_PYTHON_EXTENSIONS /\ python_parser THEN "python"
    ELSE "cpp"

\* A variant of LanguageFor with the Python parser loaded (lines 82-84
\* uncommented).
LanguageForPythonLoaded(extension) ==
    IF extension \in VALID_CPP_EXTENSIONS THEN "cpp"
    ELSE IF extension \in VALID_PYTHON_EXTENSIONS THEN "python"
    ELSE "none"

\* The language main selects for an extension: "cpp", "python", or "none"
\* (the else branch, which skips the file).
LanguageFor(extension) ==
    IF extension \in VALID_CPP_EXTENSIONS THEN "cpp"
    ELSE IF extension \in VALID_PYTHON_EXTENSIONS /\ python_parser THEN "python"
    ELSE "none"

\* output_data_template for a language.
OutputDataTemplate(lang) ==
    IF lang = "python"
    THEN [imports |-> <<>>, functions |-> <<>>, classes |-> <<>>, error |-> None]
    ELSE [includes |-> <<>>, functions |-> <<>>, classes |-> <<>>, error |-> None]

\* The entry main stores for an empty file: the template with 'error' set,
\* then 'error' deleted, then every remaining key set to [] (or to
\* 'empty file' for the key 'error', which is no longer there).
EmptyFileEntry(output_data_template) ==
    LET entry1 == [k \in DOMAIN output_data_template \cup {"error"} |->
                      IF k = "error" THEN <<"empty file">>
                      ELSE output_data_template[k]]
        entry2 == [k \in DOMAIN entry1 \ {"error"} |-> entry1[k]]
    IN  [k \in DOMAIN entry2 |->
            IF k # "error" THEN <<>> ELSE <<"empty file">>]

\* A variant of ExceptionEntry that stores the error alone.
ExceptionEntryErrorOnly(output_data_template, e) == [error |-> e]

\* A variant of ExceptionEntry that leaves 'error' at the template's None.
ExceptionEntryNoError(output_data_template, e) ==
    [k \in DOMAIN output_data_template |->
        IF k # "error" THEN <<>> ELSE None]

\* The entry main stores in the except clause: str(e) under 'error', [] under
\* every other key of the template.
ExceptionEntry(output_data_template, e) ==
    LET entry == [k \in DOMAIN output_data_template \cup {"error"} |->
                     IF k = "error" THEN e ELSE output_data_template[k]]
    IN  [k \in DOMAIN entry |-> IF k # "error" THEN <<>> ELSE e]

\* d[key] = value on a dict kept in insertion order.
DictSet(d, key, value) ==
    IF \E i \in 1..Len(d) : d[i].key = key
    THEN [i \in 1..Len(d) |->
             IF d[i].key = key THEN [key |-> key, value |-> value] ELSE d[i]]
    ELSE Append(d, [key |-> key, value |-> value])

\* The keys of a dict, and the value under a key.
DictKeys(d) == {d[i].key : i \in 1..Len(d)}

DictGet(d, key) == d[CHOOSE i \in 1..Len(d) : d[i].key = key].value

\* A variant of OnException that drops the exception and stores nothing.
OnExceptionNoEntry(output_data_template, e) ==
    [aborted |-> FALSE, entry |-> <<>>]

\* A variant of OnException without the except clause: the exception leaves
\* main.
OnExceptionPropagates(output_data_template, e) ==
    [aborted |-> TRUE, entry |-> <<>>]

\* What the except clause of the loop body does with an exception whose str
\* is e: the exception is caught and an error entry is stored.
OnException(output_data_template, e) ==
    [aborted |-> FALSE, entry |-> <<ExceptionEntry(output_data_template, e)>>]

\* One pass of the loop body on file f: whether file_count is incremented,
\* whether the file is opened, parsed and queried, how many query strings
\* are compiled, the entry stored under file_path (<<>>: none) and whether
\* an exception leaves main.
LoopBody(f) ==
    LET lang == LanguageFor(Splitext(f.filename))
        output_data_template == OutputDataTemplate(lang)
        current_query_definitions ==
            IF lang = "python" THEN python_query_definitions
            ELSE cpp_query_definitions
        skip == [counted |-> FALSE, opened |-> FALSE, parsed |-> FALSE,
                 queried |-> FALSE, compiled |-> 0, aborted |-> FALSE,
                 entry |-> <<>>]
    IN  IF lang = "none" THEN skip
        ELSE IF f.read_error # None
        THEN OnException(output_data_template, f.read_error)
             @@ [skip EXCEPT !.counted = TRUE, !.opened = TRUE]
        ELSE IF BytesStrip(f.content) = <<>>
        THEN [skip EXCEPT !.counted = TRUE, !.opened = TRUE,
                          !.entry = <<EmptyFileEntry(output_data_template)>>]
        ELSE LET analysis_result ==
                     parse_file_data(f, current_query_definitions)
             IN  IF analysis_result.raised # None
                 THEN OnException(output_data_template,
                                  analysis_result.raised)
                      @@ [skip EXCEPT !.counted = TRUE, !.opened = TRUE,
                                      !.parsed = TRUE]
                 ELSE [skip EXCEPT !.counted = TRUE, !.opened = TRUE,
                                   !.parsed = TRUE, !.queried = TRUE,
                                   !.compiled =
                                       QueryCalls(current_query_definitions),
                                   !.entry = <<analysis_result.file_data>>]

\* The order json.dump writes the keys of a record in: the order the code
\* inserts them.
FieldOrder == <<"includes", "imports", "functions", "classes", "error">>

\* The members of a JSON object written for a record, in order.
RECURSIVE JsonMembers(_, _)
JsonMembers(rec, fields) ==
    IF fields = <<>> THEN <<>>
    ELSE (IF Head(fields) \in DOMAIN rec
          THEN << <<Head(fields), rec[Head(fields)]>> >> ELSE <<>>)
         \o JsonMembers(rec, Tail(fields))

\* json.dump(repo_structure, f, indent=4): the members of the top-level
\* object in the insertion order of the dict (sort_keys is not given).
JsonDump(d) ==
    [i \in 1..Len(d) |-> <<d[i].key, JsonMembers(d[i].value, FieldOrder)>>]

\* ------------------------------------------------------------------- state

VARIABLES
    tree,            \* the files under SRC_DIR (the snapshot of one run)
    src_exists,      \* os.path.exists(SRC_DIR)
    pc,              \* where main is: "start", "walk", "done", "aborted"
    run,             \* 1 in the first run of main over the snapshot, then 2
    visited,         \* the paths the walk has yielded in this run
    last_root,       \* the directory of the file yielded last (None: none yet)
    repo_structure,  \* the dict main builds, in insertion order
    file_count,
    opened,          \* the paths main has opened for reading in this run
    parsed,          \* the paths parser.parse has been called on
    queried,         \* the paths whose tree the queries have been run on
    query_calls,     \* the calls of lang_obj.query made in this run
    report,          \* what main printed last about the run's outcome
    output_json,     \* the content of OUTPUT_JSON on disk (None: no file)
    prev_output      \* the document the previous run saved (None: none)

vars_main == <<tree, src_exists, pc, run, visited, last_root, repo_structure,
               file_count, opened, parsed, queried, query_calls, report,
               output_json, prev_output>>

\* One category of parse_file_data on its own, run on two captures dicts that
\* hold the same nodes in a different arrangement.
VARIABLES
    norm_pc,         \* "idle", "captured", "collected", "normalized", "again"
    norm_info,       \* the query definition of the category (None: none)
    captures_L,      \* captures_dict of the first run
    captures_P,      \* captures_dict of the second run: the same nodes
    file_data_L,     \* file_data[data_key] of the first run
    file_data_P,     \* file_data[data_key] of the second run
    renormalized     \* lines 66-68 applied to file_data_L once more

vars_norm == <<norm_pc, norm_info, captures_L, captures_P, file_data_L,
               file_data_P, renormalized>>

\* get_node_text on its own.
VARIABLES
    text_pc,         \* "idle", "called", "returned"
    text_content,    \* content_bytes
    text_node,       \* node
    text_out         \* what get_node_text returned (None: nothing yet)

vars_text == <<text_pc, text_content, text_node, text_out>>

\* main of generate_high_level_doc.py, from the prompt sections on.  A str is
\* kept as its length: the code only joins, measures and slices them.
VARIABLES
    doc_pc,               \* "idle", "loaded", "section1", "section2",
                          \* "section3", "join", "prompt"
    prompt_sections,      \* the lengths of the five sections
    chars_left,
    truncated_sections,   \* the lengths of the sections appended
    combined_input_text   \* its length

vars_doc == <<doc_pc, prompt_sections, chars_left, truncated_sections,
              combined_input_text>>

\* get_gemini_completion of generate_final_docs_gemini.py.
VARIABLES
    gem_pc,               \* "idle", "try", "except", "returned"
    attempt,
    retry_delay_seconds,
    outcomes,             \* what each call of generate_content did, in order
    slept,                \* the arguments of the calls of time.sleep, in order
    gem_result            \* <<v>> once the function returned v (None or a str)

vars_gemini == <<gem_pc, attempt, retry_delay_seconds, outcomes, slept,
                 gem_result>>

\* main of generate_interdocs.py.
VARIABLES
    inter_pc,             \* "idle", "strategy1", "strategy2", "done"
    inter_structure,      \* the keys of repo_structure, in the dict's order
    file_notes,           \* FILE_NOTES_DIR: path of a notes file -> the file
    inter_i,              \* the position of the running loop in the keys
    processed_files,
    generated_doc_count,
    handled,              \* the keys whose notes were fetched, pass by pass
    writes,               \* the documents written, in order
    intermediate_docs     \* INTERMEDIATE_DOCS_DIR: path -> the document

vars_inter == <<inter_pc, inter_structure, file_notes, inter_i,
                processed_files, generated_doc_count, handled, writes,
                intermediate_docs>>

\* main of annotate_files.py, from the walk on.
VARIABLES
    ann_pc,               \* "idle", "walk", "done", "raised"
    ann_files,            \* the files os.walk yields, in its order
    ann_i,                \* the position of the loop in them
    notes_dir,            \* FILE_NOTES_DIR: path of a notes file -> the file
    ann_log,              \* the model calls, RAG queries and writes made
    ann_processed_files   \* the counter processed_files

vars_annotate == <<ann_pc, ann_files, ann_i, notes_dir, ann_log,
                   ann_processed_files>>

\* main of generate_final_docs_gemini.py, from the ToC request on.
VARIABLES
    fin_pc,               \* "idle", "toc", "sections", "done", "stopped"
    toc_file,             \* TOC_FILE on disk (None: no file)
    toc_markdown,         \* None, or the ToC: a sequence of lines
    sections_to_generate,
    fin_i,                \* the position of the loop in the sections
    final_docs,           \* the paths that exist in FINAL_DOCS_OUTPUT_DIR
    requests,             \* the calls of get_gemini_completion, in order
    passes                \* what each pass of the loop did with its section

vars_final == <<fin_pc, toc_file, toc_markdown, sections_to_generate, fin_i,
                final_docs, requests, passes>>

\* The variables main does not touch.
vars_rest == <<vars_norm, vars_text, vars_doc, vars_gemini, vars_inter,
               vars_annotate, vars_final>>

vars == <<vars_main, vars_rest>>

\* The parts that are not running.
IdleMain ==
    /\ tree = {} /\ src_exists = FALSE /\ pc = "idle" /\ run = 1
    /\ visited = {} /\ last_root = None /\ repo_structure = <<>>
    /\ file_count = 0 /\ opened = {} /\ parsed = {} /\ queried = {}
    /\ query_calls = 0
    /\ report = "" /\ output_json = None /\ prev_output = None

IdleNorm ==
    /\ norm_pc = "idle" /\ norm_info = None
    /\ captures_L = <<>> /\ captures_P = <<>>
    /\ file_data_L = <<>> /\ file_data_P = <<>> /\ renormalized = <<>>

IdleText ==
    /\ text_pc = "idle" /\ text_content = <<>>
    /\ text_node = Node(0, 0) /\ text_out = None

IdleDoc ==
    /\ doc_pc = "idle" /\ prompt_sections = <<>> /\ chars_left = 0
    /\ truncated_sections = <<>> /\ combined_input_text = 0

IdleGemini ==
    /\ gem_pc = "idle" /\ attempt = 0 /\ retry_delay_seconds = 0
    /\ outcomes = <<>> /\ slept = <<>> /\ gem_result = <<>>

IdleInter ==
    /\ inter_pc = "idle" /\ inter_structure = <<>> /\ file_notes = <<>>
    /\ inter_i = 0 /\ processed_files = {} /\ generated_doc_count = 0
    /\ handled = <<>> /\ writes = <<>> /\ intermediate_docs = <<>>

IdleAnnotate ==
    /\ ann_pc = "idle" /\ ann_files = <<>> /\ ann_i = 0
    /\ notes_dir = <<>> /\ ann_log = <<>> /\ ann_processed_files = 0

IdleFinal ==
    /\ fin_pc = "idle" /\ toc_file = None /\ toc_markdown = None
    /\ sections_to_generate = <<>> /\ fin_i = 0 /\ final_docs = {}
    /\ requests = <<>> /\ passes = <<>>

\* Every part but the one named is not running, and is left as it is.
IdleExcept(part) ==
    /\ IF part = "main" THEN TRUE ELSE IdleMain
    /\ IF part = "norm" THEN TRUE ELSE IdleNorm
    /\ IF part = "text" THEN TRUE ELSE IdleText
    /\ IF part = "doc" THEN TRUE ELSE IdleDoc
    /\ IF part = "gemini" THEN TRUE ELSE IdleGemini
    /\ IF part = "inter" THEN TRUE ELSE IdleInter
    /\ IF part = "annotate" THEN TRUE ELSE IdleAnnotate
    /\ IF part = "final" THEN TRUE ELSE IdleFinal

Frame(part) ==
    /\ IF part = "main" THEN TRUE ELSE UNCHANGED vars_main
    /\ IF part = "norm" THEN TRUE ELSE UNCHANGED vars_norm
    /\ IF part = "text" THEN TRUE ELSE UNCHANGED vars_text
    /\ IF part = "doc" THEN TRUE ELSE UNCHANGED vars_doc
    /\ IF part = "gemini" THEN TRUE ELSE UNCHANGED vars_gemini
    /\ IF part = "inter" THEN TRUE ELSE UNCHANGED vars_inter
    /\ IF part = "annotate" THEN TRUE ELSE UNCHANGED vars_annotate
    /\ IF part = "final" THEN TRUE ELSE UNCHANGED vars_final

\* Directory a is directory b or one above it.
IsAncestorOrSelf(a, b) ==
    /\ Len(a) <= Len(b)
    /\ SubSeq(b, 1, Len(a)) = a
    /\ (IF Len(a) = Len(b) THEN TRUE ELSE b[Len(a) + 1] = 47)

\* Directory dir and the directories above it.
AncestorsOrSelf(dir) ==
    {d \in {SubSeq(dir, 1, n) : n \in 1..Len(dir)} : IsAncestorOrSelf(d, dir)}

\* The files the walk has not yielded yet.
Unvisited == {f \in tree : FilePath(f) \notin visited}

\* os.walk(SRC_DIR) is top-down: the files of a directory come before those
\* of the directories below it, together, and a subtree is finished before
\* the next one is entered.  The order inside a directory, and of the
\* subdirectories, is the file system's.
CanYield(f) ==
    /\ f \in Unvisited
    /\ \A g \in Unvisited : IsAncestorOrSelf(g.root, f.root) => g.root = f.root
    /\ last_root # None =>
          LET open_dirs ==
                  {d \in AncestorsOrSelf(last_root[1]) :
                      \E g \in Unvisited : IsAncestorOrSelf(d, g.root)}
              deepest ==
                  CHOOSE d \in open_dirs : \A e \in open_dirs : Len(e) <= Len(d)
          IN  open_dirs # {} => IsAncestorOrSelf(deepest, f.root)

Init ==
    /\ src_exists \in BOOLEAN
    /\ tree \in Snapshots
    /\ ~src_exists => tree = {}
    /\ pc = "start"
    /\ run = 1
    /\ visited = {}
    /\ last_root = None
    /\ repo_structure = <<>>
    /\ file_count = 0
    /\ opened = {}
    /\ parsed = {}
    /\ queried = {}
    /\ query_calls = 0
    /\ report = ""
    /\ output_json = None
    /\ prev_output = None
    /\ IdleExcept("main")

\* main up to the walk: the languages are loaded (or loading raises and main
\* returns) and SRC_DIR is looked for (main returns when it is missing).
Start ==
    /\ pc = "start"
    /\ \E loaded \in BOOLEAN :
          IF ~loaded THEN pc' = "done" /\ report' = "error loading languages"
          ELSE IF ~src_exists THEN pc' = "done" /\ report' = "source directory not found"
          ELSE pc' = "walk" /\ report' = "analyzing"
    /\ UNCHANGED <<tree, src_exists, run, visited, last_root, repo_structure,
                   file_count, opened, parsed, queried, query_calls,
                   output_json, prev_output>>
    /\ UNCHANGED vars_rest

\* One pass of the loop body, on the file the walk yields next.
WalkFile(f) ==
    /\ pc = "walk"
    /\ CanYield(f)
    /\ LET r == LoopBody(f) IN
          /\ repo_structure' =
                IF r.entry # <<>>
                THEN DictSet(repo_structure, FilePath(f), r.entry[1])
                ELSE repo_structure
          /\ file_count' = IF r.counted THEN file_count + 1 ELSE file_count
          /\ opened' = IF r.opened THEN opened \cup {FilePath(f)} ELSE opened
          /\ parsed' = IF r.parsed THEN parsed \cup {FilePath(f)} ELSE parsed
          /\ queried' = IF r.queried THEN queried \cup {FilePath(f)} ELSE queried
          /\ query_calls' = query_calls + r.compiled
          /\ pc' = IF r.aborted THEN "aborted" ELSE "walk"
    /\ visited' = visited \cup {FilePath(f)}
    /\ last_root' = <<f.root>>
    /\ UNCHANGED <<tree, src_exists, run, report, output_json, prev_output>>
    /\ UNCHANGED vars_rest

\* A variant of Finish without the test of line 158: an empty dict is dumped
\* like any other.
FinishWritesEmptyIndex ==
    /\ pc = "walk"
    /\ Unvisited = {}
    /\ pc' = "done"
    /\ output_json' = <<JsonDump(repo_structure)>>
    /\ report' = "saved"
    /\ UNCHANGED <<tree, src_exists, run, visited, last_root, repo_structure,
                   file_count, opened, parsed, queried, query_calls,
                   prev_output>>
    /\ UNCHANGED vars_rest

\* A variant of Finish whose except clause prints nothing: the line after
\* the with block is reached whether the write went through or not.
FinishFailureUnreported ==
    /\ pc = "walk"
    /\ Unvisited = {}
    /\ pc' = "done"
    /\ IF repo_structure = <<>>
       THEN report' = "no valid source files" /\ UNCHANGED output_json
       ELSE /\ report' = "saved"
            /\ \/ output_json' = <<JsonDump(repo_structure)>>
               \/ UNCHANGED output_json
    /\ UNCHANGED <<tree, src_exists, run, visited, last_root, repo_structure,
                   file_count, opened, parsed, queried, query_calls,
                   prev_output>>
    /\ UNCHANGED vars_rest

\* main after the walk: nothing is written for an empty dict; otherwise the
\* dict is dumped to OUTPUT_JSON, and a failure to open the file (it is left
\* as it was) or to write it (it is left cut short) is printed.
Finish ==
    /\ pc = "walk"
    /\ Unvisited = {}
    /\ pc' = "done"
    /\ IF repo_structure = <<>>
       THEN report' = "no valid source files" /\ UNCHANGED output_json
       ELSE \/ /\ output_json' = <<JsonDump(repo_structure)>>
               /\ report' = "saved"
            \/ /\ UNCHANGED output_json
               /\ report' = "error writing"
            \/ /\ \E n \in 0..(Len(repo_structure) - 1) :
                      output_json' = <<SubSeq(JsonDump(repo_structure), 1, n)>>
               /\ report' = "error writing"
    /\ UNCHANGED <<tree, src_exists, run, visited, last_root, repo_structure,
                   file_count, opened, parsed, queried, query_calls,
                   prev_output>>
    /\ UNCHANGED vars_rest

\* The script is run once more: over the same snapshot, or after the files
\* main analyses, or SRC_DIR itself, were removed.
Rerun ==
    /\ pc = "done"
    /\ run = 1
    /\ run' = 2
    /\ \E gone \in {"nothing", "sources", "directory"} :
          /\ tree' = IF gone = "nothing" THEN tree
                     ELSE IF gone = "sources"
                     THEN {f \in tree : LanguageFor(Splitext(f.filename)) = "none"}
                     ELSE {}
          /\ src_exists' = IF gone = "directory" THEN FALSE ELSE src_exists
    /\ pc' = "start"
    /\ prev_output' = IF report = "saved" THEN output_json ELSE None
    /\ visited' = {}
    /\ last_root' = None
    /\ repo_structure' = <<>>
    /\ file_count' = 0
    /\ opened' = {}
    /\ parsed' = {}
    /\ queried' = {}
    /\ query_calls' = 0
    /\ report' = ""
    /\ UNCHANGED output_json
    /\ UNCHANGED vars_rest

Next ==
    \/ Start
    \/ \E f \in tree : WalkFile(f)
    \/ Finish
    \/ Rerun

Spec == Init /\ [][Next]_vars

\* ------------------------------------- one category of parse_file_data
\*
\* Lines 46-68 for one data key, on the content <b>"b"a and on two captures
\* dicts that hold the same nodes: in another order, and split in another
\* way between the capture names of the category.

\* content_bytes: <b>"b"a
NormContent == <<60, 98, 62, 34, 98, 34, 97>>

\* The nodes a query may capture in it: <b>, "b" and a.
NormSpans == {Node(0, 3), Node(3, 6), Node(6, 7)}

\* The categories run: imports, with its two capture names, whose texts are
\* stripped, and functions, whose texts are not.
NormInfos ==
    {InfoOf(python_query_definitions, "imports"),
     InfoOf(cpp_query_definitions, "functions")}

\* The captures dicts with the nodes of the list nodes, in that order: the
\* first capture name has the first k of them, the last one the others.
SplitOver(capture_names, nodes) ==
    {[name \in {capture_names[i] : i \in 1..Len(capture_names)} |->
         IF name = capture_names[1] /\ Len(capture_names) > 1
         THEN SubSeq(nodes, 1, k)
         ELSE IF Len(capture_names) > 1 THEN SubSeq(nodes, k + 1, Len(nodes))
         ELSE nodes] :
     k \in 0..Len(nodes)}

\* The lists of at most MaxNodes captured nodes, and the rearrangements of
\* one of them.
NodeLists == UNION {[1..n -> NormSpans] : n \in 0..MaxNodes}

Rearranged(nodes) ==
    {[i \in 1..Len(nodes) |-> nodes[p[i]]] : p \in Permutations(1..Len(nodes))}

InitNorm ==
    /\ IdleExcept("norm")
    /\ norm_pc = "captured"
    /\ norm_info \in {<<info>> : info \in NormInfos}
    /\ \E nodes \in NodeLists :
          /\ captures_L \in SplitOver(norm_info[1].capture_names, nodes)
          /\ \E other \in Rearranged(nodes) :
                captures_P \in SplitOver(norm_info[1].capture_names, other)
    /\ file_data_L = <<>>
    /\ file_data_P = <<>>
    /\ renormalized = <<>>

\* Lines 47-64: the texts of the captured nodes are appended to the list.
NormCollect ==
    /\ norm_pc = "captured"
    /\ file_data_L' = CollectCategory(norm_info[1], Query(-1, captures_L),
                                      NormContent)
    /\ file_data_P' = CollectCategory(norm_info[1], Query(-1, captures_P),
                                      NormContent)
    /\ norm_pc' = "collected"
    /\ UNCHANGED <<norm_info, captures_L, captures_P, renormalized>>
    /\ Frame("norm")

\* Lines 66-68: the list is replaced by its sorted set.
NormNormalize ==
    /\ norm_pc = "collected"
    /\ file_data_L' = Normalize(file_data_L)
    /\ file_data_P' = Normalize(file_data_P)
    /\ norm_pc' = "normalized"
    /\ UNCHANGED <<norm_info, captures_L, captures_P, renormalized>>
    /\ Frame("norm")

\* Line 67 once more, on the list it produced.
NormAgain ==
    /\ norm_pc = "normalized"
    /\ renormalized' = Normalize(file_data_L)
    /\ norm_pc' = "again"
    /\ UNCHANGED <<norm_info, captures_L, captures_P, file_data_L, file_data_P>>
    /\ Frame("norm")

NextNorm ==
    \/ NormCollect
    \/ NormNormalize
    \/ NormAgain

SpecNorm == InitNorm /\ [][NextNorm]_vars

\* ----------------------------------------------------------- get_node_text
\*
\* get_node_text(node, content_bytes) for every content of at most MaxBytes
\* bytes and every span of it.

\* The bytes a content is made of: a, the two bytes of e-acute (195 169),
\* of which the second alone, or the first not followed by it, is not
\* UTF-8, and 255, which never is.
TextBytes == {97, 195, 169, 255}

InitText ==
    /\ IdleExcept("text")
    /\ text_pc = "called"
    /\ text_content \in UNION {[1..n -> TextBytes] : n \in 0..MaxBytes}
    /\ \E s \in 0..Len(text_content) : \E e \in s..Len(text_content) :
          text_node = Node(s, e)
    /\ text_out = None

\* Line 40.
TextReturn ==
    /\ text_pc = "called"
    /\ text_out' = <<get_node_text(text_node, text_content)>>
    /\ text_pc' = "returned"
    /\ UNCHANGED <<text_content, text_node>>
    /\ Frame("text")

NextText == TextReturn

SpecText == InitText /\ [][NextText]_vars

\* ------------------------------------------- generate_high_level_doc.main
\*
\* Lines 100-149: the five prompt sections are joined, and cut down when the
\* result is longer than MAX_PROMPT_CHARS_APPROX.

\* MAX_PROMPT_CHARS_APPROX = 180000 * 3
MAX_PROMPT_CHARS_APPROX == 180000 * 3

\* len of prompt_sections[0] for a repo_structure_str of n characters, and
\* len of the two headers, prompt_sections[1] and prompt_sections[3].
StructureSection(n) == 33 + n + 4

IntermediateHeader == 40

FileNotesHeader == 27

\* The least length of what load_all_markdown_from_dir returns for a
\* directory with a .md file in it: the banner of a file named .md.
MinLoaded == 28

\* len("\n\n".join(sections)) for sections of these lengths.
RECURSIVE SumOf(_)
SumOf(lens) == IF lens = <<>> THEN 0 ELSE Head(lens) + SumOf(Tail(lens))

JoinLen(lens) == IF lens = <<>> THEN 0 ELSE SumOf(lens) + 2 * (Len(lens) - 1)

\* len(s[:k]) for a str of n characters: a negative k counts from the end.
SliceLen(n, k) ==
    IF k >= 0 THEN (IF n <= k THEN n ELSE k)
    ELSE (IF n + k >= 0 THEN n + k ELSE 0)

\* The lengths of repo_structure_str taken: the two placeholders, and those
\* that leave section 1 a few characters short of the limit, or over it.
StructureLens ==
    {36, 38}
    \cup {MAX_PROMPT_CHARS_APPROX - StructureSection(0) - IntermediateHeader - 4 - d :
             d \in {-1, 0, 1, 30}}

\* The lengths of a loaded content: nothing, a short one, or one that leaves
\* d characters of the room there is when n have been used.
LoadedLens(n) ==
    {0, MinLoaded, MinLoaded + 12}
    \cup {k \in {MAX_PROMPT_CHARS_APPROX - n - d : d \in -2..MaxSlack} :
             k >= MinLoaded}

InitDoc ==
    /\ IdleExcept("doc")
    /\ doc_pc = "loaded"
    /\ \E r \in StructureLens :
       \E i \in LoadedLens(StructureSection(r) + IntermediateHeader + 4) :
       \E n \in LoadedLens(StructureSection(r) + IntermediateHeader + 4
                              + i + 2 + FileNotesHeader + 2) \cup LoadedLens(0) :
          prompt_sections = <<StructureSection(r), IntermediateHeader, i,
                              FileNotesHeader, n>>
    /\ chars_left = 0
    /\ truncated_sections = <<>>
    /\ combined_input_text = 0

\* Lines 108-114.
DocCombine ==
    /\ doc_pc = "loaded"
    /\ combined_input_text' = JoinLen(prompt_sections)
    /\ IF JoinLen(prompt_sections) > MAX_PROMPT_CHARS_APPROX
       THEN doc_pc' = "section1" /\ chars_left' = MAX_PROMPT_CHARS_APPROX
       ELSE doc_pc' = "prompt" /\ UNCHANGED chars_left
    /\ UNCHANGED <<prompt_sections, truncated_sections>>
    /\ Frame("doc")

\* Lines 118-126.
DocSection1 ==
    /\ doc_pc = "section1"
    /\ LET section1_len == prompt_sections[1] + prompt_sections[2] + 4 IN
          IF chars_left >= section1_len
          THEN /\ truncated_sections' =
                     truncated_sections \o <<prompt_sections[1], prompt_sections[2]>>
               /\ chars_left' = chars_left - section1_len
          ELSE /\ truncated_sections' =
                     Append(truncated_sections,
                            SliceLen(prompt_sections[1], chars_left))
               /\ chars_left' = 0
    /\ doc_pc' = "section2"
    /\ UNCHANGED <<prompt_sections, combined_input_text>>
    /\ Frame("doc")

\* Lines 129-136.
DocSection2 ==
    /\ doc_pc = "section2"
    /\ IF chars_left > 0 /\ prompt_sections[3] > 0
       THEN IF prompt_sections[3] <= chars_left
            THEN /\ truncated_sections' =
                       Append(truncated_sections, prompt_sections[3])
                 /\ chars_left' = chars_left - (prompt_sections[3] + 2)
            ELSE /\ truncated_sections' =
                       Append(truncated_sections,
                              SliceLen(prompt_sections[3], chars_left))
                 /\ chars_left' = 0
       ELSE UNCHANGED <<truncated_sections, chars_left>>
    /\ doc_pc' = "section3"
    /\ UNCHANGED <<prompt_sections, combined_input_text>>
    /\ Frame("doc")

\* Lines 139-146.
DocSection3 ==
    /\ doc_pc = "section3"
    /\ IF chars_left > 0 /\ prompt_sections[4] > 0 /\ prompt_sections[5] > 0
       THEN /\ chars_left' = chars_left - (prompt_sections[4] + 2)
            /\ truncated_sections' =
                  truncated_sections \o
                  <<prompt_sections[4],
                    IF prompt_sections[5] <= chars_left'
                    THEN prompt_sections[5]
                    ELSE SliceLen(prompt_sections[5], chars_left')>>
       ELSE UNCHANGED <<truncated_sections, chars_left>>
    /\ doc_pc' = "join"
    /\ UNCHANGED <<prompt_sections, combined_input_text>>
    /\ Frame("doc")

\* Lines 148-149.
DocJoin ==
    /\ doc_pc = "join"
    /\ combined_input_text' = JoinLen(truncated_sections)
    /\ doc_pc' = "prompt"
    /\ UNCHANGED <<prompt_sections, chars_left, truncated_sections>>
    /\ Frame("doc")

NextDoc ==
    \/ DocCombine
    \/ DocSection1
    \/ DocSection2
    \/ DocSection3
    \/ DocJoin

SpecDoc == InitDoc /\ [][NextDoc]_vars

\* --------------------------------------------------- get_gemini_completion
\*
\* Lines 61-99 of generate_final_docs_gemini.py.

\* max_retries = 3
max_retries == 3

\* A part of a response: one with the text "" or "a", or one without the
\* attribute text.
Parts == {[has_text |-> TRUE, text |-> <<>>], [has_text |-> TRUE, text |-> <<97>>],
          [has_text |-> FALSE, text |-> <<>>]}

\* What a call of gemini_model.generate_content does: it raises, or it
\* returns a response.  A response has its parts and may carry a block
\* reason in prompt_feedback; of a response without a candidate, the
\* accessor response.parts raises when it is read.
Responses ==
    {[kind |-> "response", parts_raises |-> FALSE, parts |-> ps, block_reason |-> b] :
        ps \in UNION {[1..n -> Parts] : n \in 0..MaxParts}, b \in BOOLEAN}
    \cup {[kind |-> "response", parts_raises |-> TRUE, parts |-> <<>>, block_reason |-> b] :
        b \in BOOLEAN}

CallOutcomes == {[kind |-> "raises"]} \cup Responses

\* "".join([part.text for part in response.parts if hasattr(part, 'text')])
RECURSIVE FullText(_)
FullText(parts) ==
    IF parts = <<>> THEN <<>>
    ELSE (IF Head(parts).has_text THEN Head(parts).text ELSE <<>>)
         \o FullText(Tail(parts))

\* Lines 67-86 for one outcome of the call: the try block is left by an
\* exception (from the call, or from reading response.parts), or by a return
\* of the text or of None.
TryBlock(outcome) ==
    IF outcome.kind = "raises" THEN [raised |-> TRUE, value |-> None]
    ELSE IF outcome.parts_raises THEN [raised |-> TRUE, value |-> None]
    ELSE IF outcome.parts # <<>> /\ FullText(outcome.parts) # <<>>
    THEN [raised |-> FALSE, value |-> FullText(outcome.parts)]
    ELSE [raised |-> FALSE, value |-> None]

InitGemini ==
    /\ IdleExcept("gemini")
    /\ gem_pc = "try"
    /\ attempt = 0
    /\ retry_delay_seconds = 10
    /\ outcomes = <<>>
    /\ slept = <<>>
    /\ gem_result = <<>>

\* Lines 65-86: the next attempt of the loop, up to the return or to the
\* except clause.
GemAttempt(outcome) ==
    /\ gem_pc = "try"
    /\ attempt < max_retries
    /\ outcomes' = Append(outcomes, outcome)
    /\ IF TryBlock(outcome).raised
       THEN gem_pc' = "except" /\ UNCHANGED gem_result
       ELSE gem_pc' = "returned" /\ gem_result' = <<TryBlock(outcome).value>>
    /\ UNCHANGED <<attempt, retry_delay_seconds, slept>>
    /\ Frame("gemini")

\* Lines 88-98: the except clause sleeps and goes on to the next attempt, or
\* returns None after the last one.
GemExcept ==
    /\ gem_pc = "except"
    /\ IF attempt < max_retries - 1
       THEN /\ slept' = Append(slept, retry_delay_seconds)
            /\ retry_delay_seconds' = retry_delay_seconds * 2
            /\ attempt' = attempt + 1
            /\ gem_pc' = "try"
            /\ UNCHANGED gem_result
       ELSE /\ gem_result' = <<None>>
            /\ gem_pc' = "returned"
            /\ UNCHANGED <<slept, retry_delay_seconds, attempt>>
    /\ UNCHANGED outcomes
    /\ Frame("gemini")

NextGemini ==
    \/ \E outcome \in CallOutcomes : GemAttempt(outcome)
    \/ GemExcept

SpecGemini == InitGemini /\ [][NextGemini]_vars

\* ------------------------------------------------- generate_interdocs.main
\*
\* Lines 127-225 of generate_interdocs.py.  The records of repo_structure go
\* into the prompts only; what main does depends on the keys and on their
\* order alone, so the dict is kept as the sequence of its keys.

\* FILE_NOTES_DIR = "./file_notes"
FILE_NOTES_DIR == <<46, 47, 102, 105, 108, 101, 95, 110, 111, 116, 101, 115>>

\* INTERMEDIATE_DOCS_DIR = "./intermediate_docs"
INTERMEDIATE_DOCS_DIR ==
    <<46, 47, 105, 110, 116, 101, 114, 109, 101, 100, 105, 97, 116, 101, 95,
      100, 111, 99, 115>>

\* The keys a repo structure is drawn from: ./src/a.h, ./src/a.cpp,
\* ./src/sub/a.h, ./src/sub/a.cpp and ./src/w.i.
InterKeys ==
    {PathJoin(SRC_DIR, <<97, 46, 104>>),
     PathJoin(SRC_DIR, <<97, 46, 99, 112, 112>>),
     PathJoin(SRC_DIR \o <<47, 115, 117, 98>>, <<97, 46, 104>>),
     PathJoin(SRC_DIR \o <<47, 115, 117, 98>>, <<97, 46, 99, 112, 112>>),
     PathJoin(SRC_DIR, <<119, 46, 105>>)}

\* The orders a dict of at most MaxFiles of these keys may have.
InterStructures ==
    {ks \in UNION {[1..n -> InterKeys] : n \in 1..MaxFiles} :
        \A i, j \in 1..Len(ks) : i # j => ks[i] # ks[j]}

\* The path of the notes file of a source file name, as get_file_notes and
\* annotate_files.main build it: FILE_NOTES_DIR/<filename>.md.
NotesPath(filename_with_ext) ==
    PathJoin(FILE_NOTES_DIR, filename_with_ext \o <<46, 109, 100>>)

\* What may be at the notes path of a file name: a file that cannot be read,
\* an empty file, or the notes annotate_files.main wrote from one of the
\* source files of that name.
NotesFilesFor(keys, filename) ==
    {[readable |-> FALSE, empty |-> FALSE, origin |-> None],
     [readable |-> TRUE, empty |-> TRUE, origin |-> None]}
    \cup {[readable |-> TRUE, empty |-> FALSE, origin |-> <<k>>] :
             k \in {k \in keys : Basename(k) = filename}}

\* The notes directories for the keys of a repo structure.
NotesDirs(keys) ==
    LET names == {Basename(k) : k \in keys}
    IN  UNION {{d \in [{NotesPath(n) : n \in present} ->
                         UNION {NotesFilesFor(keys, n) : n \in present}] :
                   \A n \in present : d[NotesPath(n)] \in NotesFilesFor(keys, n)} :
               present \in SUBSET names}

\* get_file_notes(filename_with_ext): the content of the notes file, or None
\* when the file is missing or cannot be read.
get_file_notes(filename_with_ext) ==
    LET md_path == NotesPath(filename_with_ext)
    IN  IF md_path \in DOMAIN file_notes
        THEN IF file_notes[md_path].readable THEN <<file_notes[md_path]>>
             ELSE None
        ELSE None

\* Whether notes are falsy: None or the empty str.
Falsy(notes) == IF notes = None THEN TRUE ELSE notes[1].empty

\* The source files the notes put into a prompt were written from.
NotesFrom(notes) ==
    IF Falsy(notes) THEN {} ELSE {notes[1].origin[1]}

\* A pass of a loop that does nothing to the key.
NoPass == [handled |-> <<>>, add |-> {}, write |-> <<>>]

\* A variant of Strategy1Body that marks only the header as processed when
\* the notes of both files are missing.
Strategy1BodyHeaderOnly(key, keys, generated, written) ==
    LET original_filename == Basename(key)
        ext == Splitext(original_filename)
        base_name_no_ext ==
            SubSeq(original_filename, 1, Len(original_filename) - Len(ext))
        potential_cpp_key ==
            PathJoin(Dirname(key), base_name_no_ext \o <<46, 99, 112, 112>>)
        header_notes == get_file_notes(original_filename)
        cpp_notes == get_file_notes(Basename(potential_cpp_key))
    IN  IF key \in processed_files THEN NoPass
        ELSE IF ext # <<46, 104>> THEN NoPass
        ELSE IF potential_cpp_key \notin keys THEN NoPass
        ELSE IF header_notes = None /\ cpp_notes = None
        THEN [handled |-> <<{key, potential_cpp_key}>>, add |-> {key},
              write |-> <<>>]
        ELSE [handled |-> <<{key, potential_cpp_key}>>,
              add |-> {key, potential_cpp_key},
              write |-> IF generated /\ written
                        THEN <<[path |-> PathJoin(INTERMEDIATE_DOCS_DIR,
                                    base_name_no_ext
                                    \o <<95, 112, 97, 105, 114, 46, 109, 100>>),
                                sources |-> {key, potential_cpp_key},
                                notes_from |-> NotesFrom(header_notes)
                                               \cup NotesFrom(cpp_notes)]>>
                        ELSE <<>>]

\* Lines 143-192: the body of the loop of Strategy 1 on one key.  generated
\* tells whether generate_combined_doc returned a non-empty text, written
\* whether the write went through.  The result names the keys whose notes
\* were fetched, the keys added to processed_files and the document written.
Strategy1Body(key, keys, generated, written) ==
    LET original_filename == Basename(key)
        ext == Splitext(original_filename)
        base_name_no_ext ==
            SubSeq(original_filename, 1, Len(original_filename) - Len(ext))
        potential_cpp_key ==
            PathJoin(Dirname(key), base_name_no_ext \o <<46, 99, 112, 112>>)
        header_notes == get_file_notes(original_filename)
        cpp_notes == get_file_notes(Basename(potential_cpp_key))
    IN  IF key \in processed_files THEN NoPass
        ELSE IF ext # <<46, 104>> THEN NoPass
        ELSE IF potential_cpp_key \notin keys THEN NoPass
        ELSE IF header_notes = None /\ cpp_notes = None
        THEN [handled |-> <<{key, potential_cpp_key}>>,
              add |-> {key, potential_cpp_key}, write |-> <<>>]
        ELSE [handled |-> <<{key, potential_cpp_key}>>,
              add |-> {key, potential_cpp_key},
              write |-> IF generated /\ written
                        THEN <<[path |-> PathJoin(INTERMEDIATE_DOCS_DIR,
                                    base_name_no_ext
                                    \o <<95, 112, 97, 105, 114, 46, 109, 100>>),
                                sources |-> {key, potential_cpp_key},
                                notes_from |-> NotesFrom(header_notes)
                                               \cup NotesFrom(cpp_notes)]>>
                        ELSE <<>>]

\* Lines 197-223: the body of the loop of Strategy 2 on one key.
Strategy2Body(key, generated, written) ==
    LET original_filename == Basename(key)
        ext == Splitext(original_filename)
        notes == get_file_notes(original_filename)
    IN  IF key \in processed_files THEN NoPass
        ELSE IF ext \notin VALID_CPP_EXTENSIONS THEN NoPass
        ELSE IF Falsy(notes)
        THEN [handled |-> <<{key}>>, add |-> {key}, write |-> <<>>]
        ELSE [handled |-> <<{key}>>, add |-> {key},
              write |-> IF generated /\ written
                        THEN <<[path |-> PathJoin(INTERMEDIATE_DOCS_DIR,
                                    original_filename
                                    \o <<95, 115, 105, 110, 103, 108, 101,
                                         46, 109, 100>>),
                                sources |-> {key},
                                notes_from |-> NotesFrom(notes)]>>
                        ELSE <<>>]

\* Line 128 returned a non-empty dict; lines 137-138.
InitInter ==
    /\ IdleExcept("inter")
    /\ inter_pc = "strategy1"
    /\ inter_structure \in InterStructures
    /\ file_notes \in NotesDirs({inter_structure[i] : i \in 1..Len(inter_structure)})
    /\ inter_i = 1
    /\ processed_files = {}
    /\ generated_doc_count = 0
    /\ handled = <<>>
    /\ writes = <<>>
    /\ intermediate_docs = <<>>

\* What a pass of either loop does with the result of its body.
InterApply(strategy, r) ==
    /\ processed_files' = processed_files \cup r.add
    /\ handled' = IF r.handled = <<>> THEN handled
                  ELSE Append(handled, [strategy |-> strategy,
                                        keys |-> r.handled[1]])
    /\ IF r.write = <<>>
       THEN UNCHANGED <<writes, intermediate_docs, generated_doc_count>>
       ELSE /\ writes' = Append(writes, r.write[1])
            /\ intermediate_docs' =
                  [p \in DOMAIN intermediate_docs \cup {r.write[1].path} |->
                      IF p = r.write[1].path THEN r.write[1]
                      ELSE intermediate_docs[p]]
            /\ generated_doc_count' = generated_doc_count + 1
    /\ inter_i' = inter_i + 1
    /\ UNCHANGED <<inter_pc, inter_structure, file_notes>>

\* One pass of the loop of lines 142-192.
InterStrategy1 ==
    /\ inter_pc = "strategy1"
    /\ inter_i <= Len(inter_structure)
    /\ \E generated, written \in BOOLEAN :
          InterApply(1, Strategy1Body(inter_structure[inter_i],
                                      {inter_structure[i] :
                                          i \in 1..Len(inter_structure)},
                                      generated, written))
    /\ Frame("inter")

\* Lines 194-196: the first loop is over and the second one starts.
InterNextStrategy ==
    /\ inter_pc = "strategy1"
    /\ inter_i > Len(inter_structure)
    /\ inter_pc' = "strategy2"
    /\ inter_i' = 1
    /\ UNCHANGED <<inter_structure, file_notes, processed_files,
                   generated_doc_count, handled, writes, intermediate_docs>>
    /\ Frame("inter")

\* One pass of the loop of lines 196-223.
InterStrategy2 ==
    /\ inter_pc = "strategy2"
    /\ inter_i <= Len(inter_structure)
    /\ \E generated, written \in BOOLEAN :
          InterApply(2, Strategy2Body(inter_structure[inter_i],
                                      generated, written))
    /\ Frame("inter")

\* Line 225.
InterDone ==
    /\ inter_pc = "strategy2"
    /\ inter_i > Len(inter_structure)
    /\ inter_pc' = "done"
    /\ UNCHANGED <<inter_structure, file_notes, inter_i, processed_files,
                   generated_doc_count, handled, writes, intermediate_docs>>
    /\ Frame("inter")

NextInter ==
    \/ InterStrategy1
    \/ InterNextStrategy
    \/ InterStrategy2
    \/ InterDone

SpecInter == InitInter /\ [][NextInter]_vars

\* ----------------------------------------------------- annotate_files.main
\*
\* Lines 142-195 of annotate_files.py: the directories exist and the RAG
\* index is loaded.

\* The files a walk is drawn from: ./src/a.cpp, ./src/sub/a.cpp, ./src/b.h,
\* ./src/.h and ./src/README.md.
AnnCatalogue ==
    {[root |-> SRC_DIR, filename |-> <<97, 46, 99, 112, 112>>],
     [root |-> SRC_DIR \o <<47, 115, 117, 98>>,
      filename |-> <<97, 46, 99, 112, 112>>],
     [root |-> SRC_DIR, filename |-> <<98, 46, 104>>],
     [root |-> SRC_DIR, filename |-> <<46, 104>>],
     [root |-> SRC_DIR, filename |-> <<82, 69, 65, 68, 77, 69, 46, 109, 100>>]}

\* The orders os.walk(SRC_DIR) may yield at most MaxFiles of them in: the
\* files of SRC_DIR come before those of the directory below it.
AnnWalks ==
    {fs \in UNION {[1..n -> AnnCatalogue] : n \in 1..MaxFiles} :
        /\ \A i, j \in 1..Len(fs) : i # j => fs[i] # fs[j]
        /\ \A i, j \in 1..Len(fs) :
              i < j => Len(fs[i].root) <= Len(fs[j].root)}

\* filename.endswith(ext)
EndsWith(filename, ext) ==
    IF Len(ext) <= Len(filename)
    THEN SubSeq(filename, Len(filename) - Len(ext) + 1, Len(filename)) = ext
    ELSE FALSE

\* any(filename.endswith(ext) for ext in VALID_EXTENSIONS); VALID_EXTENSIONS
\* has the members of VALID_CPP_EXTENSIONS.
HasValidExtension(filename) ==
    \E ext \in VALID_CPP_EXTENSIONS : EndsWith(filename, ext)

\* A notes file that was there before the run.
OldNotes == [origin |-> None, state |-> "old"]

\* What the calls of one pass of the loop may do: open/read raises, or gives
\* blank or other content; generate_initial_notes returns a non-empty text
\* or not; query_rag_index returns retrieved text, or None (no node, or
\* query_engine.query raised, which line 88 catches), or
\* index.as_query_engine raises on line 78, outside the try;
\* generate_rag_addendum returns a non-empty text or not; opening the notes
\* file for writing raises, or the write raises after it, or both go through.
AnnOutcomes ==
    [read : {"raises", "blank", "text"},
     initial : BOOLEAN,
     rag : {"text", "none", "engine raises"},
     addendum : BOOLEAN,
     write : {"ok", "open raises", "write raises"}]

\* Lines 145-193: the body of the loop on file f when the calls do o.  The
\* result has the calls made, whether an exception leaves main, the notes
\* file left at output_md_path (<<>>: none written) and the increment of
\* processed_files.
VisitFile(f, o) ==
    LET file_path == FilePath(f)
        output_md_path == NotesPath(f.filename)
        ev(kind, ok) == [kind |-> kind, file |-> file_path, ok |-> ok]
        stay == [log |-> <<>>, raised |-> FALSE, notes |-> <<>>, count |-> 0]
    IN  IF ~HasValidExtension(f.filename) THEN stay
        ELSE IF output_md_path \in DOMAIN notes_dir THEN stay
        ELSE IF o.read # "text" THEN stay
        ELSE IF ~o.initial
        THEN [stay EXCEPT !.log = <<ev("initial", FALSE)>>]
        ELSE IF o.rag = "engine raises"
        THEN [stay EXCEPT !.log = <<ev("initial", TRUE), ev("rag", FALSE)>>,
                          !.raised = TRUE]
        ELSE LET called ==
                     <<ev("initial", TRUE), ev("rag", o.rag = "text")>>
                     \o (IF o.rag = "text"
                         THEN <<ev("addendum", o.addendum)>> ELSE <<>>)
                 final_notes ==
                     [origin |-> <<file_path>>,
                      state |-> IF o.rag = "text" /\ o.addendum
                                THEN "notes and addendum" ELSE "notes"]
             IN  IF o.write = "ok"
                 THEN [log |-> called \o <<ev("write", TRUE)>>,
                       raised |-> FALSE, notes |-> <<final_notes>>,
                       count |-> 1]
                 ELSE IF o.write = "write raises"
                 THEN [log |-> called \o <<ev("write", FALSE)>>,
                       raised |-> FALSE,
                       notes |-> <<[final_notes EXCEPT !.state = "cut short"]>>,
                       count |-> 0]
                 ELSE [stay EXCEPT !.log = called \o <<ev("write", FALSE)>>]

\* Line 142, with any notes files of the walk's file names already there.
InitAnnotate ==
    /\ IdleExcept("annotate")
    /\ ann_pc = "walk"
    /\ ann_files \in AnnWalks
    /\ ann_i = 1
    /\ \E present \in SUBSET {NotesPath(ann_files[i].filename) :
                                 i \in 1..Len(ann_files)} :
          notes_dir = [p \in present |-> OldNotes]
    /\ ann_log = <<>>
    /\ ann_processed_files = 0

\* One pass of the loop of lines 143-193.
AnnVisit ==
    /\ ann_pc = "walk"
    /\ ann_i <= Len(ann_files)
    /\ \E o \in AnnOutcomes :
          LET f == ann_files[ann_i]
              r == VisitFile(f, o)
          IN  /\ ann_log' = ann_log \o r.log
              /\ ann_pc' = IF r.raised THEN "raised" ELSE "walk"
              /\ notes_dir' =
                    IF r.notes = <<>> THEN notes_dir
                    ELSE [p \in DOMAIN notes_dir \cup {NotesPath(f.filename)} |->
                             IF p = NotesPath(f.filename) THEN r.notes[1]
                             ELSE notes_dir[p]]
              /\ ann_processed_files' = ann_processed_files + r.count
    /\ ann_i' = ann_i + 1
    /\ UNCHANGED ann_files
    /\ Frame("annotate")

\* Line 195.
AnnDone ==
    /\ ann_pc = "walk"
    /\ ann_i > Len(ann_files)
    /\ ann_pc' = "done"
    /\ UNCHANGED <<ann_files, ann_i, notes_dir, ann_log, ann_processed_files>>
    /\ Frame("annotate")

NextAnnotate ==
    \/ AnnVisit
    \/ AnnDone

SpecAnnotate == InitAnnotate /\ [][NextAnnotate]_vars

\* ------------------------------------------ generate_final_docs_gemini.main
\*
\* Lines 149-247 of generate_final_docs_gemini.py: the project overview is
\* loaded and the output directory exists.  get_gemini_completion returns a
\* non-empty str or None (lines 61-99).

\* FINAL_DOCS_OUTPUT_DIR = "./final_documentation"
FINAL_DOCS_OUTPUT_DIR ==
    <<46, 47, 102, 105, 110, 97, 108, 95, 100, 111, 99, 117, 109, 101, 110,
      116, 97, 116, 105, 111, 110>>

\* A line of a ToC: what it starts with ("#" for one to three of them and a
\* space, "####", "-" for a list item, "" for plain text), whether a
\* numbering such as "1. " comes next, and the text after it.
TocLine(mark, numbered, title) ==
    [mark |-> mark, numbered |-> numbered, title |-> title]

\* The lines a ToC is made of:  # A  /  ## 1. A B  /  ## A_B  /  ### 2.  /
\* #### A  /  * ?
TocLines ==
    {TocLine("#", FALSE, <<65>>),
     TocLine("#", TRUE, <<65, 32, 66>>),
     TocLine("#", FALSE, <<65, 95, 66>>),
     TocLine("#", TRUE, <<>>),
     TocLine("####", FALSE, <<65>>),
     TocLine("-", FALSE, <<63>>)}

\* The ToCs of one to MaxLines lines.
Tocs == UNION {[1..n -> TocLines] : n \in 1..MaxLines}

\* The titles of the lines of a ToC that start with mark, in order, without
\* those that are empty once the numbering is removed (lines 126-133 and
\* 138-144).
RECURSIVE TitlesOf(_, _)
TitlesOf(toc_content, mark) ==
    IF toc_content = <<>> THEN <<>>
    ELSE (IF Head(toc_content).mark = mark /\ Head(toc_content).title # <<>>
          THEN <<Head(toc_content).title>> ELSE <<>>)
         \o TitlesOf(Tail(toc_content), mark)

\* parse_toc_markdown(toc_content): the titles of the headers of level 1 to
\* 3, or those of the list items when there is no such header.
parse_toc_markdown(toc_content) ==
    IF TitlesOf(toc_content, "#") # <<>> THEN TitlesOf(toc_content, "#")
    ELSE TitlesOf(toc_content, "-")

\* sanitize_filename(title), for a title without blanks or "#" at its ends:
\* " " becomes "_", "/" and "\" become "-", what is left and is not a word
\* character, "-", "_" or "." is removed, then the dots at the end; an empty
\* result is "untitled_section"; the first 100 characters and ".md".
sanitize_filename(title) ==
    LET replaced == [i \in 1..Len(title) |->
                        IF title[i] = 32 THEN 95
                        ELSE IF title[i] \in {47, 92} THEN 45
                        ELSE title[i]]
        Kept(c) == c \in (48..57) \cup (65..90) \cup (97..122) \cup {45, 95, 46}
        kept == SelectSeq(replaced, Kept)
        dotless == {n \in 0..Len(kept) : \A i \in (n + 1)..Len(kept) : kept[i] = 46}
        cut == SubSeq(kept, 1, CHOOSE n \in dotless : \A m \in dotless : n <= m)
        named == IF cut = <<>>
                 THEN <<117, 110, 116, 105, 116, 108, 101, 100, 95, 115, 101,
                        99, 116, 105, 111, 110>>
                 ELSE cut
    IN  SubSeq(named, 1, IF Len(named) < 100 THEN Len(named) ELSE 100)
        \o <<46, 109, 100>>

\* What may be at TOC_FILE before the run: no file, a file that cannot be
\* read, an empty file, or a ToC saved earlier.
TocFiles ==
    {None, <<[readable |-> FALSE, content |-> <<>>]>>,
     <<[readable |-> TRUE, content |-> <<>>]>>}
    \cup {<<[readable |-> TRUE, content |-> t]>> :
             t \in {<<TocLine("#", FALSE, <<65>>), TocLine("#", FALSE, <<65, 95, 66>>)>>,
                    <<TocLine("-", FALSE, <<63>>)>>}}

\* The output paths of the sections of the ToCs.
SectionPaths ==
    {PathJoin(FINAL_DOCS_OUTPUT_DIR, sanitize_filename(l.title)) :
        l \in {l \in TocLines : l.title # <<>>}}

\* load_file_content(TOC_FILE): the content, or None.
LoadToc ==
    IF toc_file = None THEN None
    ELSE IF toc_file[1].readable THEN <<toc_file[1].content>>
    ELSE None

\* Line 173, with anything at TOC_FILE and in the output directory.
InitFinal ==
    /\ IdleExcept("final")
    /\ fin_pc = "toc"
    /\ toc_file \in TocFiles
    /\ toc_markdown = None
    /\ sections_to_generate = <<>>
    /\ fin_i = 0
    /\ final_docs \in SUBSET SectionPaths
    /\ requests = <<>>
    /\ passes = <<>>

\* Lines 173-203: the ToC is requested; completion is what
\* get_gemini_completion returns, written whether the write of TOC_FILE goes
\* through.  The ToC is saved, or the saved one is loaded, or main returns;
\* the ToC is parsed and main returns when it has no section.
FinToc(completion, written) ==
    /\ fin_pc = "toc"
    /\ requests' = Append(requests, [kind |-> "toc", title |-> <<>>,
                                     ok |-> completion # None])
    /\ LET used == IF completion # None THEN completion
                   ELSE IF toc_file = None THEN None
                   ELSE IF LoadToc = None THEN None
                   ELSE IF LoadToc[1] = <<>> THEN None
                   ELSE LoadToc
       IN  /\ toc_file' = IF completion # None /\ written
                          THEN <<[readable |-> TRUE, content |-> completion[1]]>>
                          ELSE toc_file
           /\ toc_markdown' = used
           /\ IF used = None
              THEN /\ fin_pc' = "stopped"
                   /\ UNCHANGED <<sections_to_generate, fin_i>>
              ELSE /\ sections_to_generate' = parse_toc_markdown(used[1])
                   /\ fin_pc' = IF parse_toc_markdown(used[1]) = <<>>
                                THEN "stopped" ELSE "sections"
                   /\ fin_i' = 1
    /\ UNCHANGED <<final_docs, passes>>
    /\ Frame("final")

\* A variant of SectionPass without the test of line 209.
SectionPassNoExistsTest(section_title, completion, written) ==
    [title |-> section_title,
     path |-> PathJoin(FINAL_DOCS_OUTPUT_DIR, sanitize_filename(section_title)),
     did |-> "requested", saved |-> completion # None /\ written]

\* What one pass of the loop does: "skipped", or "requested" with the file
\* written or not.
SectionPass(section_title, completion, written) ==
    LET section_output_path ==
            PathJoin(FINAL_DOCS_OUTPUT_DIR, sanitize_filename(section_title))
    IN  IF section_output_path \in final_docs
        THEN [title |-> section_title, path |-> section_output_path,
              did |-> "skipped", saved |-> FALSE]
        ELSE [title |-> section_title, path |-> section_output_path,
              did |-> "requested", saved |-> completion # None /\ written]

\* Lines 204-245: one pass of the loop.
FinSection(completion, written) ==
    /\ fin_pc = "sections"
    /\ fin_i <= Len(sections_to_generate)
    /\ LET r == SectionPass(sections_to_generate[fin_i], completion, written)
       IN  /\ passes' = Append(passes, r)
           /\ requests' = IF r.did = "skipped" THEN requests
                          ELSE Append(requests,
                                      [kind |-> "section", title |-> r.title,
                                       ok |-> completion # None])
           /\ final_docs' = IF r.saved THEN final_docs \cup {r.path}
                            ELSE final_docs
    /\ fin_i' = fin_i + 1
    /\ UNCHANGED <<fin_pc, toc_file, toc_markdown, sections_to_generate>>
    /\ Frame("final")

\* Line 247.
FinDone ==
    /\ fin_pc = "sections"
    /\ fin_i > Len(sections_to_generate)
    /\ fin_pc' = "done"
    /\ UNCHANGED <<toc_file, toc_markdown, sections_to_generate, fin_i,
                   final_docs, requests, passes>>
    /\ Frame("final")

\* What get_gemini_completion may return for a ToC request, and for a
\* section request (the text of a section is not looked at).
TocCompletions == {None} \cup {<<t>> : t \in Tocs}
SectionCompletions == {None, <<"text">>}

NextFinal ==
    \/ \E completion \in TocCompletions, written \in BOOLEAN :
          FinToc(completion, written)
    \/ \E completion \in SectionCompletions, written \in BOOLEAN :
          FinSection(completion, written)
    \/ FinDone

SpecFinal == InitFinal /\ [][NextFinal]_vars

\* ----------------------------------------------------------------- claims

\* The category keys of a record: all but 'error'.
CategoryKeys(rec) == DOMAIN rec \ {"error"}

\* Every category list of a record is empty.
ListsEmpty(rec) == \A k \in CategoryKeys(rec) : rec[k] = <<>>

\* A record's error field is set: the key is there and its value is a str.
ErrorSet(rec) ==
    IF "error" \in DOMAIN rec THEN rec.error # None ELSE FALSE

\* The extension of f's name is one of a language whose parser is loaded.
Recognized(f) ==
    IF Splitext(f.filename) \in VALID_CPP_EXTENSIONS THEN TRUE
    ELSE IF Splitext(f.filename) \in VALID_PYTHON_EXTENSIONS THEN python_parser
    ELSE FALSE

\* The walk has yielded f in this run.
Yielded(f) == FilePath(f) \in visited

\* f's content is empty or whitespace only.
Blank(f) == \A i \in 1..Len(f.content) : f.content[i] \in {9, 10, 11, 12, 13, 32}

\* What reading and parsing f raises: None, or the str of the exception.
Raised(f) ==
    IF f.read_error # None THEN f.read_error
    ELSE IF Blank(f) THEN None
    ELSE f.parse_error

\* The record stored under f's path.
RecordOf(f) == DictGet(repo_structure, FilePath(f))

\* The walk of this run is over: main went through the whole tree.
WalkOver ==
    IF pc = "done"
    THEN report \in {"saved", "error writing", "no valid source files"}
    ELSE FALSE

\* C1: after a completed run the index holds exactly one record for every
\* recognized file the walk found, whatever extraction did on it: its keys are
\* the paths of those files, no key occurs twice, and the walk found every
\* file of the tree.
C1_OneRecordPerRecognizedFile ==
    /\ DictKeys(repo_structure) =
          {FilePath(f) : f \in {g \in tree : Yielded(g) /\ Recognized(g)}}
    /\ \A i, j \in 1..Len(repo_structure) :
          repo_structure[i].key = repo_structure[j].key => i = j
    /\ WalkOver => \A f \in tree : Yielded(f)

\* A completed run over three recognized files: one that cannot be read, one
\* that is empty and one that is extracted.
C1_Witness ==
    /\ WalkOver
    /\ Len(repo_structure) = 3
    /\ \E f, g, h \in tree :
          /\ Recognized(f) /\ f.read_error # None
          /\ Recognized(g) /\ g.read_error = None /\ Blank(g)
          /\ Recognized(h) /\ Raised(h) = None /\ ~Blank(h)

\* The pass of the loop on a file: main stays in the walk, a recognized file
\* gets its entry, and when reading or parsing the file raises, the dict is
\* as it was plus one entry for the file, whose error is the str of the
\* exception and whose lists are empty.
C2_Step ==
    \A f \in tree :
        (FilePath(f) \notin visited /\ FilePath(f) \in visited') =>
            /\ pc' = "walk"
            /\ Recognized(f) => FilePath(f) \in DictKeys(repo_structure')
            /\ (Recognized(f) /\ Raised(f) # None) =>
                  repo_structure' =
                      Append(repo_structure,
                             [key |-> FilePath(f),
                              value |-> [includes |-> <<>>, functions |-> <<>>,
                                         classes |-> <<>>, error |-> Raised(f)]])

\* C2: when reading or parsing a file raises, the run does not abort: the
\* file's record gets the str of the exception as its error and empty lists,
\* the records stored before are left as they were, and every file the walk
\* yields later is still processed.
C2_FailureIsolated == [][C2_Step]_vars

\* A completed run in which the second of three entries is an error entry:
\* a file was processed before the failing one and one after it.
C2_Witness ==
    /\ WalkOver
    /\ Len(repo_structure) = 3
    /\ ErrorSet(repo_structure[2].value)
    /\ ~ErrorSet(repo_structure[1].value)
    /\ ~ErrorSet(repo_structure[3].value)

\* C3: no record of the index has its error set and a list that is not empty.
C3_ErrorMeansEmptyLists ==
    \A i \in 1..Len(repo_structure) :
        ErrorSet(repo_structure[i].value) => ListsEmpty(repo_structure[i].value)

\* The index holds a record with its error set beside a record with a list
\* that is not empty.
C3_Witness ==
    /\ \E i \in 1..Len(repo_structure) : ErrorSet(repo_structure[i].value)
    /\ \E i \in 1..Len(repo_structure) : ~ListsEmpty(repo_structure[i].value)

\* C4: in every record of the index every category list is in ascending order
\* of str and holds no string twice.
C4_ListsSortedNoDuplicates ==
    \A i \in 1..Len(repo_structure) :
        LET rec == repo_structure[i].value IN
        \A k \in CategoryKeys(rec) :
            /\ \A m, n \in 1..Len(rec[k]) : m # n => rec[k][m] # rec[k][n]
            /\ \A m, n \in 1..Len(rec[k]) : m < n => ~StrLess(rec[k][n], rec[k][m])

\* A file whose includes query captured the same path twice, and the larger
\* path first, has a record with both paths, once each.
C4_Witness ==
    \E f \in tree :
        /\ Yielded(f) /\ Recognized(f) /\ Raised(f) = None /\ ~Blank(f)
        /\ "include_path" \in DOMAIN f.queries.includes.captures_dict
        /\ LET nodes == f.queries.includes.captures_dict.include_path
               text(n) == StrStrip(get_node_text(nodes[n], f.content), {34, 60, 62})
           IN  /\ \E m, n \in 1..Len(nodes) : m # n /\ text(m) = text(n)
               /\ \E m, n \in 1..Len(nodes) : m < n /\ StrLess(text(n), text(m))
        /\ Len(RecordOf(f).includes) = 2

\* The nodes the queries of category k capture in f, in the order the loops
\* of parse_file_data visit them.
NodesOf(f, k) ==
    CapturedNodes(InfoOf(cpp_query_definitions, k).capture_names,
                  f.queries[k].captures_dict)

\* The texts added to category k of f before the try block is left: those of
\* all its nodes, or of the nodes before the one an exception is raised at.
TextsAdded(f, k) ==
    LET nodes == NodesOf(f, k)
        n == IF f.queries[k].raise_after < 0 \/ f.queries[k].raise_after > Len(nodes)
             THEN Len(nodes) ELSE f.queries[k].raise_after
    IN  {TextToAdd(k, nodes[i], f.content) : i \in 1..n}

\* The query of some category raises on f's tree.
QueryRaises(f) == \E k \in DOMAIN f.queries : f.queries[k].raise_after >= 0

\* Reading and parsing f goes through and f is not blank: its tree is queried.
Extracted(f) == Recognized(f) /\ Raised(f) = None /\ ~Blank(f)

\* The elements of a list.
Elements(xs) == {xs[i] : i \in 1..Len(xs)}

\* C5 (as claimed): a run that saves a document over the snapshot of the
\* previous run saves the same document, whatever order the two walks had.
C5_RunsWriteSameDocument ==
    (pc = "done" /\ report = "saved" /\ prev_output # None) =>
        output_json = prev_output

C7_EmptyFileHasError ==
    \A f \in tree :
        (Yielded(f) /\ Recognized(f) /\ f.read_error = None /\ Blank(f)) =>
            /\ IF "error" \in DOMAIN RecordOf(f)
               THEN RecordOf(f).error = <<"empty file">> ELSE FALSE
            /\ ListsEmpty(RecordOf(f))
            /\ FilePath(f) \notin parsed
            /\ FilePath(f) \notin queried

\* The extension of f's name is in no language's set of extensions.
NoProfile(f) ==
    Splitext(f.filename) \notin VALID_CPP_EXTENSIONS \cup VALID_PYTHON_EXTENSIONS

\* In every state: a file of no profile is never opened, parsed or
\* queried, and its path is no key of the index.
C8_Never ==
    \A f \in tree :
        NoProfile(f) =>
            /\ FilePath(f) \notin opened \cup parsed \cup queried
            /\ FilePath(f) \notin DictKeys(repo_structure)

\* In every step: the pass of the loop on a file of no profile changes
\* neither the index nor file_count, and reads, parses and queries nothing.
C8_Step ==
    \A f \in tree :
        (NoProfile(f) /\ FilePath(f) \notin visited /\ FilePath(f) \in visited') =>
            /\ repo_structure' = repo_structure
            /\ file_count' = file_count
            /\ opened' = opened /\ parsed' = parsed /\ queried' = queried
            /\ pc' = "walk"

\* C8: a file whose extension matches no language profile is skipped: it is
\* never read, parsed or queried, has no record, and is not counted.
C8_UnrecognizedSkipped == []C8_Never /\ [][C8_Step]_vars

\* A completed run over a tree with a file of no profile and a recognized
\* file: one file counted, one record.
C8_Witness ==
    /\ WalkOver
    /\ \E f, g \in tree : NoProfile(f) /\ Yielded(f) /\ Recognized(g)
    /\ Cardinality(visited) >= 2
    /\ file_count = 1
    /\ Len(repo_structure) = 1

\* The number of recognized files of the tree.
RecognizedCount == Cardinality({f \in tree : Recognized(f)})

\* The record of f is what extraction makes of f alone: the error entry when
\* reading or parsing raised, empty lists for a blank file, and otherwise no
\* error and the texts added to each category.
PopulatedNormally(f) ==
    IF Raised(f) # None
    THEN RecordOf(f) = [includes |-> <<>>, functions |-> <<>>,
                        classes |-> <<>>, error |-> Raised(f)]
    ELSE IF Blank(f) THEN ListsEmpty(RecordOf(f))
    ELSE /\ DOMAIN RecordOf(f) = {"includes", "functions", "classes"}
         /\ \A k \in DOMAIN RecordOf(f) :
               Elements(RecordOf(f)[k]) = TextsAdded(f, k)

\* C9 (as claimed): after a completed run over N recognized files there are N
\* records, the record of a malformed file has a non-empty error and empty
\* lists, and the other records are populated normally.
C9_MalformedHasError ==
    WalkOver =>
        /\ Len(repo_structure) = RecognizedCount
        /\ \A f \in tree :
              Recognized(f) =>
                  IF f.malformed
                  THEN /\ ErrorSet(RecordOf(f))
                       /\ RecordOf(f).error # <<"">>
                       /\ ListsEmpty(RecordOf(f))
                  ELSE PopulatedNormally(f)

\* C9 (amended): after a completed run over N recognized files there are N
\* records, and every record, that of a malformed file too, is populated
\* normally: a malformed file has an error and empty lists only when reading
\* or parsing it raised, and otherwise the captures of its best-effort tree.
C9_MalformedIsolated ==
    WalkOver =>
        /\ Len(repo_structure) = RecognizedCount
        /\ \A f \in tree : Recognized(f) => PopulatedNormally(f)

\* A completed run over three recognized files: a malformed one whose tree
\* gave an include and no error, a malformed one the parser raised on, and a
\* well-formed one.
C9_Witness ==
    /\ WalkOver
    /\ RecognizedCount = 3
    /\ \E f, g, h \in tree :
          /\ f.malformed /\ Extracted(f)
          /\ ~ErrorSet(RecordOf(f)) /\ RecordOf(f).includes # <<>>
          /\ g.malformed /\ Recognized(g) /\ Raised(g) # None
          /\ ErrorSet(RecordOf(g))
          /\ ~h.malformed /\ Extracted(h)

\* C10: a recognized file that is not blank, is read and parsed without an
\* exception and on which no query raises has a record without error, whose
\* lists hold exactly the texts of the nodes the queries captured, be that
\* none.
C10_EmptyCapturesAreValid ==
    \A f \in tree :
        (Yielded(f) /\ Extracted(f) /\ ~QueryRaises(f)) =>
            /\ ~ErrorSet(RecordOf(f))
            /\ \A k \in {"includes", "functions", "classes"} :
                  /\ k \in DOMAIN RecordOf(f)
                  /\ Elements(RecordOf(f)[k]) =
                        {TextToAdd(k, NodesOf(f, k)[i], f.content) :
                            i \in 1..Len(NodesOf(f, k))}

\* The record of a file that is not blank and in which no query captured
\* anything: three empty lists and no error.
C10_Witness ==
    \E f \in tree :
        /\ Yielded(f) /\ Extracted(f) /\ ~QueryRaises(f)
        /\ \A k \in {"includes", "functions", "classes"} : NodesOf(f, k) = <<>>
        /\ ListsEmpty(RecordOf(f))
        /\ ~ErrorSet(RecordOf(f))

\* t is s without its leading and trailing characters of chars: a slice of s
\* that neither starts nor ends with one of them, and around which s holds
\* nothing else.
IsStripped(t, s, chars) ==
    \E i \in 1..(Len(s) + 1) : \E j \in (i - 1)..Len(s) :
        /\ t = SubSeq(s, i, j)
        /\ \A m \in 1..(i - 1) : s[m] \in chars
        /\ \A m \in (j + 1)..Len(s) : s[m] \in chars
        /\ (IF i <= j THEN s[i] \notin chars /\ s[j] \notin chars ELSE TRUE)

\* The text of every node captured for category k in f, as get_node_text
\* returns it.
CapturedTexts(f, k) ==
    {get_node_text(NodesOf(f, k)[i], f.content) : i \in 1..Len(NodesOf(f, k))}

\* C11: in the record of an extracted file the includes are the captured
\* texts without their leading and trailing quotes and angle brackets, so
\* that a quoted and a bracketed capture of one path give one entry, and the
\* functions and classes are the captured texts themselves.
C11_OnlyIncludesAreStripped ==
    \A f \in tree :
        (Yielded(f) /\ Extracted(f) /\ ~QueryRaises(f)) =>
            /\ \A t \in Elements(RecordOf(f).includes) :
                  \E s \in CapturedTexts(f, "includes") :
                      IsStripped(t, s, {34, 60, 62})
            /\ \A s \in CapturedTexts(f, "includes") :
                  \E t \in Elements(RecordOf(f).includes) :
                      IsStripped(t, s, {34, 60, 62})
            /\ \A k \in {"functions", "classes"} :
                  Elements(RecordOf(f)[k]) = CapturedTexts(f, k)

\* The record of a file in which "b" and <b> were captured, as includes and
\* as functions: the one include b, and the two functions "b" and <b>.
C11_Witness ==
    \E f \in tree :
        /\ Yielded(f) /\ Extracted(f) /\ ~QueryRaises(f)
        /\ CapturedTexts(f, "includes") = {<<34, 98, 34>>, <<60, 98, 62>>}
        /\ RecordOf(f).includes = << <<98>> >>
        /\ RecordOf(f).functions = << <<34, 98, 34>>, <<60, 98, 62>> >>

\* The list of the first run as line 62 left it, before lines 66-68.
RawL == CollectCategory(norm_info[1], Query(-1, captures_L), NormContent)

RawP == CollectCategory(norm_info[1], Query(-1, captures_P), NormContent)

\* No string occurs twice in xs; xs is in strictly ascending order of str.
NoDuplicates(xs) == \A m, n \in 1..Len(xs) : m # n => xs[m] # xs[n]

StrictlyAscending(xs) == \A m, n \in 1..Len(xs) : m < n => StrLess(xs[m], xs[n])

\* In every state: a normalized list holds no string twice, and normalizing
\* it once more gave the same list.
C12_Always ==
    /\ norm_pc \in {"normalized", "again"} =>
          NoDuplicates(file_data_L) /\ NoDuplicates(file_data_P)
    /\ norm_pc = "again" => renormalized = file_data_L

\* In every step: normalizing a list that is already ascending without
\* duplicates leaves it as it is.
C12_Step ==
    (norm_pc = "collected" /\ norm_pc' = "normalized"
        /\ StrictlyAscending(file_data_L))
    => file_data_L' = file_data_L

\* C12: normalization is idempotent and free of duplicates: for every list L
\* of captured strings normalize(L) holds no string twice,
\* normalize(normalize(L)) = normalize(L), and a list that is already
\* normalized is returned unchanged.
C12_NormalizeIdempotent == []C12_Always /\ [][C12_Step]_vars

\* Three captured strings, one of them twice and not in ascending order,
\* were normalized to two, and normalized again.
C12_Witness ==
    /\ norm_pc = "again"
    /\ Len(RawL) = 3
    /\ ~NoDuplicates(RawL)
    /\ \E m, n \in 1..Len(RawL) : m < n /\ StrLess(RawL[n], RawL[m])
    /\ Len(file_data_L) = 2
    /\ renormalized = file_data_L

\* C13: two captures dicts that hold the same nodes, in whatever order and
\* under whichever capture names of the category, give the same normalized
\* list.
C13_OrderIndependent ==
    norm_pc \in {"normalized", "again"} => file_data_L = file_data_P

\* The imports of two runs that captured the same three nodes: in another
\* order, and with another share of them under each capture name.
C13_Witness ==
    /\ norm_pc = "normalized"
    /\ norm_info[1].data_key = "imports"
    /\ Len(RawL) = 3
    /\ RawL # RawP
    /\ Len(captures_L.module_part) # Len(captures_P.module_part)
    /\ Len(file_data_L) = 2
    /\ file_data_L = file_data_P

\* The step that ends a run in which the languages were loaded and the tree
\* holds no recognized file: OUTPUT_JSON is left as it was, be that absent,
\* and main prints that SRC_DIR is missing or that no valid source file was
\* found.
C14_Step ==
    (pc # "done" /\ pc' = "done" /\ report' # "error loading languages"
        /\ \A f \in tree : ~Recognized(f))
    => /\ output_json' = output_json
       /\ report' = IF src_exists THEN "no valid source files"
                    ELSE "source directory not found"
       /\ repo_structure' = <<>>

\* C14: a run that finds no recognized file, SRC_DIR being missing or holding
\* only other files, reports it and writes nothing: no empty index is
\* created and an output file that exists is left untouched.
C14_NothingWrittenForNoFiles == [][C14_Step]_vars

\* A run over a tree that holds only files of other extensions has ended;
\* the document the run before it had saved is still there.
C14_Witness ==
    /\ pc = "done" /\ run = 2
    /\ report = "no valid source files"
    /\ tree # {}
    /\ Cardinality(visited) = Cardinality(tree)
    /\ prev_output # None
    /\ output_json = prev_output

\* In every state: main prints a write error only when its run is over, and
\* the index it built is then still in memory, with the record of every
\* recognized file of the tree.
C15_Always ==
    report = "error writing" =>
        /\ pc = "done"
        /\ repo_structure # <<>>
        /\ DictKeys(repo_structure) =
              {FilePath(f) : f \in {g \in tree : Recognized(g)}}

\* In every step: the step that writes the document leaves the index as it
\* is, and prints that the document was saved only when OUTPUT_JSON holds
\* the whole of it; otherwise it prints the error.
C15_Step ==
    (pc = "walk" /\ pc' = "done" /\ repo_structure # <<>>) =>
        /\ repo_structure' = repo_structure
        /\ report' \in {"saved", "error writing"}
        /\ report' = "saved" => output_json' = <<JsonDump(repo_structure)>>

BrokenCategories ==
    {k \in {"includes", "functions", "classes"} :
        \E f \in tree : IF k \in DOMAIN f.queries
                         THEN f.queries[k] = Query(0, <<>>) ELSE FALSE}

WellFormedRecord(rec) ==
    /\ \/ DOMAIN rec \ {"error"} = {"includes", "functions", "classes"}
       \/ DOMAIN rec \ {"error"} = {"imports", "functions", "classes"}
    /\ \A k \in DOMAIN rec \ {"error"} :
          /\ rec[k] \in Seq(Seq(Nat))
    /\ "error" \in DOMAIN rec =>
          \/ rec.error = None
          \/ Len(rec.error) = 1 /\ rec.error[1] \in STRING

\* The names of the members json.dump wrote for the i-th record of a
\* document.
WrittenFields(doc, i) == {doc[i][2][j][1] : j \in 1..Len(doc[i][2])}

\* C17: every record of the index, and of the document written from it, has
\* the three category fields, each a list of strings, and an error that is a
\* string, null or absent.
C17_RecordsHaveFixedFields ==
    /\ \A i \in 1..Len(repo_structure) :
          WellFormedRecord(repo_structure[i].value)
    /\ output_json # None =>
          \A i \in 1..Len(output_json[1]) :
              /\ {"functions", "classes"} \subseteq WrittenFields(output_json[1], i)
              /\ "includes" \in WrittenFields(output_json[1], i)
                 \/ "imports" \in WrittenFields(output_json[1], i)
              /\ WrittenFields(output_json[1], i) \subseteq
                    {"includes", "imports", "functions", "classes", "error"}

\* A saved document with three records: one of an extraction that found
\* something, one of an empty file and one of the exception path, the only
\* one with an error member.
C17_Witness ==
    /\ pc = "done" /\ report = "saved"
    /\ Len(output_json[1]) = 3
    /\ \E f, g, h \in tree :
          /\ Extracted(f) /\ ~ListsEmpty(RecordOf(f))
          /\ Recognized(g) /\ g.read_error = None /\ Blank(g)
          /\ Recognized(h) /\ Raised(h) # None
    /\ Cardinality({i \in 1..3 : "error" \in WrittenFields(output_json[1], i)}) = 1

\* The UTF-8 encoding of a str of code points below 2048.
RECURSIVE Utf8Encode(_)
Utf8Encode(str) ==
    IF str = <<>> THEN <<>>
    ELSE (IF Head(str) < 128 THEN <<Head(str)>>
          ELSE <<192 + (Head(str) \div 64), 128 + (Head(str) % 64)>>)
         \o Utf8Encode(Tail(str))

\* a is b with some of its elements left out.
RECURSIVE IsSubsequence(_, _)
IsSubsequence(a, b) ==
    IF a = <<>> THEN TRUE
    ELSE IF b = <<>> THEN FALSE
    ELSE IF Head(a) = Head(b) THEN IsSubsequence(Tail(a), Tail(b))
    ELSE IsSubsequence(a, Tail(b))

\* The bytes of the node's span, and whether they are the encoding of a str
\* (of the characters a and e-acute, which TextBytes can spell).
SpanBytes == SubSeq(text_content, text_node.start_byte + 1, text_node.end_byte)

ValidUtf8(b) ==
    \E str \in UNION {[1..n -> {97, 233}] : n \in 0..Len(b)} :
        Utf8Encode(str) = b

\* How often x occurs in xs, and how often the pair x, y does.
Count(x, xs) == Cardinality({i \in 1..Len(xs) : xs[i] = x})

CountPair(x, y, xs) ==
    Cardinality({i \in 1..(Len(xs) - 1) : xs[i] = x /\ xs[i + 1] = y})

\* C18 (as claimed): the text returned for a span that holds bytes that are
\* not UTF-8 has a placeholder, U+FFFD, where they were.
C18_UndecodableReplaced ==
    text_pc = "returned" =>
        /\ text_out # None
        /\ ~ValidUtf8(SpanBytes) => Count(65533, text_out[1]) > 0

\* C18 (amended): get_node_text returns a str for every span; the bytes of
\* the span that are not UTF-8 are dropped without a placeholder, and what
\* is UTF-8 in the span, and nothing from outside it, is there in order.
C18_UndecodableDropped ==
    text_pc = "returned" =>
        /\ text_out # None
        /\ Count(65533, text_out[1]) = 0
        /\ IsSubsequence(Utf8Encode(text_out[1]), SpanBytes)
        /\ Count(97, text_out[1]) = Count(97, SpanBytes)
        /\ Count(233, text_out[1]) = CountPair(195, 169, SpanBytes)
        /\ Len(text_out[1]) = Count(97, SpanBytes) + CountPair(195, 169, SpanBytes)
        /\ ValidUtf8(SpanBytes) => Utf8Encode(text_out[1]) = SpanBytes

\* The text of the whole of the content 255 a 195: the one character a.
C18_Witness ==
    /\ text_pc = "returned"
    /\ text_content = <<255, 97, 195>>
    /\ text_node = Node(0, 3)
    /\ text_out = << <<97>> >>

\* C19 (as claimed): when the truncation branch has run, combined_input_text
\* is no longer than MAX_PROMPT_CHARS_APPROX.
C19_TruncatedFitsLimit ==
    (doc_pc = "prompt" /\ truncated_sections # <<>>) =>
        combined_input_text <= MAX_PROMPT_CHARS_APPROX

\* C20 (as claimed): in every state of get_gemini_completion at most three
\* calls were made, every call before the last one raised, the sleeps were
\* of 10 and then 20 seconds, one after every call but the third, and the
\* function has returned as soon as a call returned a response, with the
\* text of the response or with None; after three exceptions it has
\* returned None.
C20_RetriesOnlyAfterCallRaised ==
    /\ Len(outcomes) <= 3
    /\ \A i \in 1..(Len(outcomes) - 1) : outcomes[i].kind = "raises"
    /\ \E n \in 0..2 : slept = SubSeq(<<10, 20>>, 1, n)
    /\ gem_pc = "try" => Len(slept) = Len(outcomes)
    /\ IF outcomes # <<>>
       THEN IF outcomes[Len(outcomes)].kind = "response"
            THEN /\ gem_pc = "returned"
                 /\ gem_result \in
                       {<<None>>, <<FullText(outcomes[Len(outcomes)].parts)>>}
            ELSE gem_pc = "returned" =>
                    /\ Len(outcomes) = 3
                    /\ slept = <<10, 20>>
                    /\ gem_result = <<None>>
       ELSE gem_pc = "try"

\* The name of f has the extension .py.
IsPython(f) == Splitext(f.filename) \in VALID_PYTHON_EXTENSIONS

\* In every state: a .py file is never opened, parsed or queried and its
\* path is no key of the index; every key has the extension .h, .cpp or .i
\* and every record has the field includes and no field imports.
C25_Always ==
    /\ \A f \in tree :
          IsPython(f) =>
              /\ FilePath(f) \notin opened \cup parsed \cup queried
              /\ FilePath(f) \notin DictKeys(repo_structure)
    /\ \A i \in 1..Len(repo_structure) :
          /\ Splitext(Basename(repo_structure[i].key)) \in VALID_CPP_EXTENSIONS
          /\ "includes" \in DOMAIN repo_structure[i].value
          /\ "imports" \notin DOMAIN repo_structure[i].value

\* In every step: the pass of the loop on a .py file changes neither the
\* index nor file_count, and reads, parses and queries nothing.
C25_Step ==
    \A f \in tree :
        (IsPython(f) /\ FilePath(f) \notin visited /\ FilePath(f) \in visited') =>
            /\ repo_structure' = repo_structure
            /\ file_count' = file_count
            /\ opened' = opened /\ parsed' = parsed /\ queried' = queried
            /\ pc' = "walk"

\* C25: with python_parser None, a .py file is skipped like a file of an
\* unknown extension: it is never read, has no record and no error entry and
\* is not counted; every key of the index has the extension .h, .cpp or .i
\* and every record uses the field includes, never imports.
C25_PythonSkippedAsShipped == []C25_Always /\ [][C25_Step]_vars

\* A completed run over ./src/m.py and two C++ files: two files counted,
\* two records, both with includes.
C25_Witness ==
    /\ WalkOver
    /\ \E f \in tree : IsPython(f) /\ Yielded(f)
    /\ Cardinality(tree) = 3
    /\ file_count = 2
    /\ Len(repo_structure) = 2
    /\ \A i \in 1..Len(repo_structure) :
          "includes" \in DOMAIN repo_structure[i].value

\* The keys of the repo structure of the run.
KeysOfRun == {inter_structure[i] : i \in 1..Len(inter_structure)}

\* The passes that fetched the notes of key k, and the documents written
\* from it.
HandledWith(k) == {i \in 1..Len(handled) : k \in handled[i].keys}
WrittenFrom(k) == {i \in 1..Len(writes) : k \in writes[i].sources}

\* C21: in a run of generate_interdocs.main every key of the repo structure
\* is handled by at most one pass and goes into at most one document; the
\* two keys of a pair of Strategy 1 are both in processed_files once the pair
\* was handled, whatever the order of the keys, whether or not notes were
\* found and the document was generated and written, and neither is handled
\* by Strategy 2.
C21_KeyInAtMostOneDocument ==
    /\ \A k \in KeysOfRun :
          /\ Cardinality(HandledWith(k)) <= 1
          /\ Cardinality(WrittenFrom(k)) <= 1
    /\ \A i \in 1..Len(handled) :
          handled[i].strategy = 1 =>
              /\ Cardinality(handled[i].keys) = 2
              /\ handled[i].keys \subseteq processed_files
              /\ \A j \in 1..Len(handled) :
                    handled[j].strategy = 2 =>
                        handled[i].keys \cap handled[j].keys = {}

\* A finished run in which the .cpp key of a pair came before its .h key,
\* the notes of both were missing and nothing was written for the pair, and
\* Strategy 2 handled a standalone file and wrote its document.
C21_Witness ==
    /\ inter_pc = "done"
    /\ \E a, b \in 1..Len(inter_structure) :
          /\ a < b
          /\ Splitext(Basename(inter_structure[a])) = <<46, 99, 112, 112>>
          /\ get_file_notes(Basename(inter_structure[a])) = None
          /\ get_file_notes(Basename(inter_structure[b])) = None
          /\ \E i \in 1..Len(handled) :
                /\ handled[i].strategy = 1
                /\ handled[i].keys = {inter_structure[a], inter_structure[b]}
    /\ \E j \in 1..Len(handled) : handled[j].strategy = 2
    /\ Len(writes) = 1

\* C22 (as claimed): in a run of generate_interdocs.main no two documents
\* are written to the same output path, and the notes a document is built
\* from were written from its own source files.
C22_DocumentsKeepApart ==
    /\ \A i, j \in 1..Len(writes) :
          i # j => writes[i].path # writes[j].path
    /\ \A i \in 1..Len(writes) :
          writes[i].notes_from \subseteq writes[i].sources

\* The file the loop of annotate_files.main is at.
AnnCurrent == ann_files[ann_i]

\* What the pass of this step added to the log.
AnnAdded == SubSeq(ann_log', Len(ann_log) + 1, Len(ann_log'))

\* The pass of this step made a call of the kind, with that result.
AnnMade(kind, ok) ==
    \E i \in 1..Len(AnnAdded) : AnnAdded[i].kind = kind /\ AnnAdded[i].ok = ok

\* In a pass of the loop: every notes file that exists stays as it is, and
\* nothing is called or queried for a file whose notes path exists; a notes
\* file appears only after the initial notes came back non-empty; and when
\* they did, and opening and writing the notes file did not fail, the notes
\* file is there after the pass, whatever the RAG query and the addendum did.
C23_Step ==
    (ann_pc = "walk" /\ ann_i' = ann_i + 1) =>
        /\ \A p \in DOMAIN notes_dir :
              IF p \in DOMAIN notes_dir' THEN notes_dir'[p] = notes_dir[p]
              ELSE FALSE
        /\ NotesPath(AnnCurrent.filename) \in DOMAIN notes_dir =>
              ann_log' = ann_log
        /\ DOMAIN notes_dir' # DOMAIN notes_dir =>
              /\ DOMAIN notes_dir' =
                    DOMAIN notes_dir \cup {NotesPath(AnnCurrent.filename)}
              /\ AnnMade("initial", TRUE)
        /\ (AnnMade("initial", TRUE) /\ ~AnnMade("write", FALSE)) =>
              IF NotesPath(AnnCurrent.filename) \in DOMAIN notes_dir'
              THEN notes_dir'[NotesPath(AnnCurrent.filename)].origin
                      = <<FilePath(AnnCurrent)>>
              ELSE FALSE

\* C23 (as claimed): annotate_files.main never changes a notes file that
\* exists, and makes no model call and no RAG query for a file whose notes
\* path exists when it is visited; a notes file is created only after the
\* initial notes came back non-empty; a failed RAG query or addendum never
\* keeps the initial notes from being written.
C23_NotesWrittenOnceAndAlways == [][C23_Step]_vars

\* The titles of the lines of the ToC main works with.
TocTitles == [i \in 1..Len(toc_markdown[1]) |-> toc_markdown[1][i].title]

\* In every state: a section was requested only with a non-empty ToC at
\* hand; the sections are titles of the ToC in the order of its lines; the
\* passes made so far went through the sections in that order, one each; and
\* a run that stopped or that is over made a pass for no section or for
\* every one.
C24_Always ==
    /\ (\E i \in 1..Len(requests) : requests[i].kind = "section") =>
          /\ toc_markdown # None
          /\ IF toc_markdown = None THEN FALSE ELSE toc_markdown[1] # <<>>
    /\ fin_pc \in {"sections", "done"} =>
          /\ toc_markdown # None
          /\ IsSubsequence(sections_to_generate, TocTitles)
          /\ Len(passes) = fin_i - 1
          /\ \A i \in 1..Len(passes) :
                passes[i].title = sections_to_generate[i]
    /\ fin_pc = "stopped" => passes = <<>> /\ Len(requests) = 1
    /\ fin_pc = "done" => Len(passes) = Len(sections_to_generate)

\* In every step: when the ToC request fails, the saved ToC is taken when
\* TOC_FILE exists, can be read and is not empty, and main stops otherwise;
\* the loop ends only after the last section, and every pass, whatever its
\* request and its write did, goes on to the next section; a pass on a section
\* whose output file exists requests nothing and writes nothing.
C24_Step ==
    /\ (fin_pc = "toc" /\ Len(requests') = 1) =>
          (~requests'[1].ok =>
              IF toc_file = None THEN fin_pc' = "stopped"
              ELSE IF toc_file[1].readable /\ toc_file[1].content # <<>>
              THEN toc_markdown' = <<toc_file[1].content>>
              ELSE fin_pc' = "stopped")
    /\ (fin_pc = "sections" /\ fin_i > Len(sections_to_generate)) =>
          fin_pc' = "done"
    /\ (fin_pc = "sections" /\ fin_i <= Len(sections_to_generate)) =>
          /\ fin_pc' = "sections"
          /\ fin_i' = fin_i + 1
          /\ Len(passes') = Len(passes) + 1
          /\ PathJoin(FINAL_DOCS_OUTPUT_DIR,
                      sanitize_filename(sections_to_generate[fin_i]))
                \in final_docs =>
                /\ requests' = requests
                /\ final_docs' = final_docs

\* C24: generate_final_docs_gemini.main requests a section only with a
\* non-empty ToC at hand: when the ToC request fails the saved ToC file is
\* used if it exists and can be read, and otherwise main stops before any
\* section; the sections are handled in the order of the ToC, one whose
\* output file exists is skipped without a request, and a section that fails
\* does not keep the later ones from being attempted: the loop goes from
\* each section to the next and ends after the last.
C24_SectionsNeedToc == []C24_Always /\ [][C24_Step]_vars

\* A finished run: the ToC request failed and the saved ToC of two sections
\* was used; the request of the first section failed, and the second section
\* was requested and saved.
C24_Witness ==
    /\ fin_pc = "done"
    /\ Len(requests) = 3
    /\ ~requests[1].ok /\ ~requests[2].ok /\ requests[3].ok
    /\ Len(passes) = 2
    /\ passes[2].saved
    /\ toc_file # None
    /\ IF toc_file = None THEN FALSE ELSE toc_markdown = <<toc_file[1].content>>

====
